---------------------------- MODULE Spec2Model ----------------------------
(***************************************************************************)
(* BluePulse: the rolling time-series simulation of the dashboard.         *)
(*                                                                         *)
(*   MLTraining           (src/unnamed/part_001)  the 1 s training cadence *)
(*   OceanographicModule  (src/DEPLOYMENT.md)     the 30 s live cadence    *)
(*                                                                         *)
(* JavaScript runs every handler and every timer callback to completion,   *)
(* so each method is one atomic action.  Real numbers are fixed point:     *)
(* metric values in millionths, Math.random() in ten-thousandths.  Text    *)
(* written into DOM elements (metric read-outs, button states, chart       *)
(* options) is presentation and is not part of the state.                  *)
(***************************************************************************)
EXTENDS Integers, Sequences, FiniteSets, TLC

VARIABLES
    \* ---- MLTraining fields
    currentModel,       \* this.currentModel
    isTraining,         \* this.isTraining
    trainingInterval,   \* this.trainingInterval: a timer id, or Null
    currentEpoch,       \* this.currentEpoch
    totalEpochs,        \* this.totalEpochs: a JS number (may be NaN)
    modelData,          \* this.modelData[m].accuracy / .loss
    trainCharts,        \* this.charts 'loss' and 'accuracy': what each chart shows
    trainingLogs,       \* the #training-logs element and its children
    \* ---- OceanographicModule fields
    currentParameter,   \* this.currentParameter
    currentStation,     \* this.currentStation
    forecastRange,      \* this.forecastRange
    historicalData,     \* this.historicalData: parameter key -> array of samples
    oceanCharts,        \* this.charts 'forecast' and 'historical': the data given to each
    cardReading,        \* what the last updateParameterCards read off the buffers and derived
    \* ---- BluePulseApp and the page
    currentSection,     \* this.currentSection
    mlTrainingBuilt,    \* window.mlTrainingModule is defined
    detached,           \* module instances no longer (or never) held by window.*: how
                        \* many have a live timer, a running, a paused, an idle scheduler
    loadPhase,          \* where loadInitialData stands: "fetching", "parsing", "done"
    loadingShown,       \* the loading overlay is displayed
    kpis,               \* the values the four KPI elements are set to, or "none"
    response,           \* how the dashboard stats request came out, or "pending"
    \* ---- SpeciesMap and its view
    speciesData,        \* this.speciesData
    filteredData,       \* this.filteredData
    heatmapVisible,     \* this.heatmapVisible
    speciesFilter,      \* the value of #species-filter
    confidenceFilter,   \* the value of #confidence-filter
    mapMarkers,         \* the ids of the markers in #map-markers, in order
    recentDetections,   \* the ids listed in #recent-detections, in order
    detectionsPresent,  \* the page holds #recent-detections
    refreshTimeouts,    \* the timeouts refreshData has set and that have not run
    \* ---- EDNAAnalysis and its view
    isAnalyzing,        \* this.isAnalyzing
    analysisResults,    \* this.analysisResults: "none", or "mock" once generated
    analysisStepsLeft,  \* per analysis in flight, the one-second waits it has still to make
    startDisabled,      \* #start-analysis is disabled
    \* ---- OtolithClassifier and its view
    currentImage,       \* this.currentImage: NoImage or a file
    isClassifying,      \* this.isClassifying
    classifyDisabled,   \* #classify-btn is disabled
    previewImage,       \* the file #uploaded-image shows, or NoImage
    readerPending,      \* the files FileReaders are reading
    classification,     \* the performClassification waits in flight; the last result shown
    \* ---- the timeouts of MLTraining.initTrainingLogs
    initialLogs,        \* the initial logs whose timeouts have not run yet
    \* ---- AIAssistant
    assistants,         \* the instances constructed: conversationHistory, isProcessing,
                        \* and the messages whose processMessage is awaited
    chatInput,          \* the value of #chat-input
    chatMessages,       \* #chat-messages: present or not, its messages, its typing indicators
    \* ---- the alerts of BluePulseApp.showAlert
    lastAlert,          \* the type of the last alert shown, or "none"
    \* ---- a method called by hand
    unitCall,           \* the last getParameterUnit call: its argument and what it returned
    \* ---- the browser
    timers,             \* ids of the interval timers of MLTraining still active
    liveTimers,         \* the interval timers startRealTimeUpdates has created (never cleared)
    liveFired,          \* how many of them have fired in the current 30 s interval
    now,                \* the clock, in seconds since the last bulk generation
    rngSeed,            \* the state of Math.random's generator
    \* ---- history (not read by the program)
    lastCall,           \* the scheduler method invoked last
    startAfter,         \* the scheduler method that preceded the last startTraining call
    completions,        \* completeTraining invocations since the last effective start
    epochsStable,       \* totalEpochs has kept the value it had at that start
    ticks,              \* simulateTrainingEpoch invocations so far
    appended,           \* samples appended to each buffer since it was last rebuilt
    intervalAppends,    \* samples appended to each buffer in the current 30 s interval
    clockSetBacks       \* how often the system clock has been set back

trainVars == <<currentModel, isTraining, trainingInterval, currentEpoch,
               totalEpochs, modelData, trainCharts, trainingLogs, timers,
               lastCall, startAfter, completions, epochsStable, ticks>>

oceanVars == <<currentParameter, currentStation, forecastRange, historicalData,
               oceanCharts, cardReading, liveTimers, liveFired, now, appended,
               intervalAppends, clockSetBacks>>

appVars == <<currentSection, mlTrainingBuilt, detached, loadPhase, loadingShown,
             kpis, response>>

mapVars == <<speciesData, filteredData, heatmapVisible, speciesFilter,
             confidenceFilter, mapMarkers, recentDetections, detectionsPresent,
             refreshTimeouts>>

ednaVars == <<isAnalyzing, analysisResults, analysisStepsLeft, startDisabled>>

otolithVars == <<currentImage, isClassifying, classifyDisabled, previewImage,
                 readerPending, classification>>

alertVars == <<lastAlert>>

chatVars == <<assistants, chatInput, chatMessages>>

logVars == <<initialLogs>>

\* the modules of the other views
moduleVars == <<mapVars, ednaVars, otolithVars, alertVars, chatVars, logVars>>

\* what a step of the species map leaves alone
mapFrame == <<ednaVars, otolithVars, alertVars, chatVars, logVars>>

callVars == <<unitCall>>

vars == <<trainVars, oceanVars, appVars, moduleVars, callVars, rngSeed>>

----------------------------------------------------------------------------
(* Bounds of the exploration *)

\* addTrainingLog calls explored on a page with #training-logs
MaxLogged == 22

\* the clicks on start and pause, and the clicks made before the last timeout
\* of initTrainingLogs, are explored among the first MaxVariedCalls of them
MaxVariedCalls == 6

\* AIAssistant instances constructed
MaxAssistants == 2

\* entries of a conversationHistory
MaxHistory == 4

\* simulateTrainingEpoch invocations explored in one behaviour
MaxTicks == 4

\* live appends explored beyond the one that first fills a buffer to its cap
MaxOverflow == 3

\* startRealTimeUpdates calls explored on one module, the constructor's included
MaxLiveTimers == 2

\* live appends explored after a rebuild while several live timers run, or
\* once the system clock has been set back
MaxSharedTicks == 4

\* times the system clock is set back in one behaviour
MaxSetBacks == 1

\* the longest buffer createForecastChart and updateParameterCards are applied to
MaxSnapshot == 90

(* Program constants *)

\* `if (data.length > 1000)`: the retention cap of a buffer
RetentionCap == 1000

\* the live cadence: setInterval(..., 30000), in seconds
LiveInterval == 30

\* 60 * 60 * 1000 ms, in seconds
SecondsPerHour == 3600

\* the retention of the training log: part_001 line 377
MaxLogEntries == 20

Null == 0               \* JS null for a timer handle (timer ids are positive)

----------------------------------------------------------------------------
(* JS numbers that may be NaN *)

JsNumber(n) == [nan |-> FALSE, n |-> n]

NaN == [nan |-> TRUE, n |-> 0]

\* a >= b on JS numbers, a an integer: false when b is NaN
GreaterEq(a, b) == ~b.nan /\ a >= b.n

Digits == <<"0", "1", "2", "3", "4", "5", "6", "7", "8", "9">>

IsDigit(c) == \E d \in 1..10 : Digits[d] = c

DigitValue(c) == (CHOOSE d \in 1..10 : Digits[d] = c) - 1

RECURSIVE SkipWhitespace(_)
SkipWhitespace(s) ==
    IF s # <<>> /\ Head(s) = " " THEN SkipWhitespace(Tail(s)) ELSE s

RECURSIVE LeadingDigits(_)
LeadingDigits(s) ==
    IF s # <<>> /\ IsDigit(Head(s))
    THEN <<Head(s)>> \o LeadingDigits(Tail(s))
    ELSE <<>>

RECURSIVE DecimalValue(_, _)
DecimalValue(ds, acc) ==
    IF ds = <<>> THEN acc
    ELSE DecimalValue(Tail(ds), 10 * acc + DigitValue(Head(ds)))

\* parseInt(string): leading blanks, an optional sign, then the longest run of
\* digits; NaN when there is no digit.  A string is a sequence of characters.
ParseInt(s) ==
    LET t      == SkipWhitespace(s)
        signed == t # <<>> /\ Head(t) \in {"-", "+"}
        u      == IF signed THEN Tail(t) ELSE t
        ds     == LeadingDigits(u)
        v      == DecimalValue(ds, 0)
    IN  IF ds = <<>> THEN NaN
        ELSE JsNumber(IF signed /\ Head(t) = "-" THEN 0 - v ELSE v)

Min(a, b) == IF a <= b THEN a ELSE b

Max(a, b) == IF a >= b THEN a ELSE b

----------------------------------------------------------------------------
(* Math.random() *)

\* The values a draw can take, in ten-thousandths: the least and (just under)
\* the greatest of [0, 1).
RandomValues == <<0, 9999>>

Seeds == 0 .. (Len(RandomValues) - 1)

\* The value a generator seeded with `seed` gives the slot-th Math.random()
\* call site of a handler.
Draw(seed, slot) == RandomValues[((seed + slot) % Len(RandomValues)) + 1]

\* The value drawn at the slot-th Math.random() call site of a handler.  The
\* generator's seed is not observable: it is chosen once, in Init, and every
\* call site then draws its own fixed representative of [0, 1).
Random(slot) == Draw(rngSeed, slot)

----------------------------------------------------------------------------
(* MLTraining: construction *)

Models == {"otolith", "lstm", "edna", "nlp"}

InitialModelData ==
    [m \in Models |->
        CASE m = "otolith" ->
               [accuracy |-> <<200000, 400000, 600000, 750000, 820000, 880000, 910000, 942000>>,
                loss     |-> <<2100000, 1800000, 1400000, 1100000, 800000, 600000, 400000, 320000>>]
          [] m = "lstm" ->
               [accuracy |-> <<300000, 500000, 650000, 750000, 820000, 860000, 890000, 913000>>,
                loss     |-> <<1900000, 1500000, 1200000, 900000, 700000, 500000, 400000, 350000>>]
          [] m = "edna" ->
               [accuracy |-> <<400000, 600000, 750000, 830000, 890000, 920000, 950000, 961000>>,
                loss     |-> <<1600000, 1200000, 900000, 700000, 500000, 400000, 300000, 250000>>]
          [] m = "nlp" ->
               [accuracy |-> <<400000, 550000, 680000, 750000, 810000, 850000, 880000, 890000>>,
                loss     |-> <<1800000, 1400000, 1100000, 900000, 700000, 600000, 500000, 450000>>]]

\* A chart holds the array it was given (the model's own array, named here by
\* the model's key) and a label list built from that array's length.
ChartsFor(m, data) ==
    [loss     |-> [data |-> m, labels |-> Len(data[m].loss)],
     accuracy |-> [data |-> m, labels |-> Len(data[m].accuracy)]]

\* The model cards the user clicks (card.dataset.model).
ModelCards == {"otolith", "lstm"}

\* The strings the epochs control delivers to its change handler.
EpochInputs == { <<>>, <<"0">>, <<"2">>, <<"-", "1">> }

\* a page without the #training-logs element; `calls` is history: the messages
\* of the addTrainingLog calls that found the element, oldest first
NoTrainingLogs == [present |-> FALSE, entries |-> <<>>, calls |-> <<>>]

MLTrainingInit ==
    /\ currentModel = "otolith"
    /\ isTraining = FALSE
    /\ trainingInterval = Null
    /\ currentEpoch = 0
    /\ totalEpochs = JsNumber(100)
    /\ modelData = InitialModelData
    /\ trainCharts = ChartsFor("otolith", InitialModelData)
    /\ trainingLogs = NoTrainingLogs
    /\ timers = {}
    /\ lastCall = "constructor"
    /\ startAfter = "none"
    /\ completions = 0
    /\ epochsStable = TRUE
    /\ ticks = 0

----------------------------------------------------------------------------
(* MLTraining: helpers *)

\* addTrainingLog without its `while (children.length > 20)` loop
AddTrainingLogUncut(log, message) ==
    IF ~log.present THEN log
    ELSE [log EXCEPT !.entries = <<message>> \o log.entries,
                     !.calls = Append(@, message)]

\* addTrainingLog: without the #training-logs element nothing happens; else
\* the entry goes first and the log is cut to its newest 20 entries.
AddTrainingLog(log, message) ==
    IF ~log.present THEN log
    ELSE LET added == <<message>> \o log.entries
         IN  [log EXCEPT !.entries =
                 IF Len(added) > MaxLogEntries
                 THEN SubSeq(added, 1, MaxLogEntries)
                 ELSE added,
                         !.calls = Append(@, message)]

\* initialLogs of initTrainingLogs
InitialLogs ==
    <<"Training system initialized", "GPU available: NVIDIA RTX 4090",
      "Datasets loaded and preprocessed", "Models ready for training">>

\* a timeout of initTrainingLogs runs; their delays of 0, 500, 1000 and
\* 1500 ms make them run in the order of initialLogs
InitialLogTimeout ==
    /\ initialLogs # <<>>
    /\ trainingLogs' = AddTrainingLog(trainingLogs, Head(initialLogs))
    /\ initialLogs' = Tail(initialLogs)
    /\ UNCHANGED <<currentModel, isTraining, trainingInterval, currentEpoch,
                   totalEpochs, modelData, trainCharts, timers, lastCall,
                   startAfter, completions, epochsStable, ticks>>

\* setInterval's return value: an id no active timer has.
NewTimerId(active) == CHOOSE id \in 1 .. (Cardinality(active) + 1) : id \notin active

\* clearInterval(handle), guarded by `if (this.trainingInterval)`.
ClearTrainingInterval(active, handle) ==
    IF handle # Null THEN active \ {handle} ELSE active

----------------------------------------------------------------------------
(* MLTraining: operations *)

\* the click handler of a model card (setupModelSelection)
SelectModel(m) ==
    /\ currentModel' = m
    /\ trainCharts' = ChartsFor(m, modelData)
    /\ UNCHANGED <<isTraining, trainingInterval, currentEpoch, totalEpochs, modelData,
                   trainingLogs, timers, lastCall, startAfter, completions,
                   epochsStable, ticks>>

\* the change handler of the epochs control (setupTrainingControls)
SetTotalEpochs(input) ==
    /\ totalEpochs' = ParseInt(input)
    /\ epochsStable' = (epochsStable /\ (~isTraining \/ ParseInt(input) = totalEpochs))
    /\ UNCHANGED <<currentModel, isTraining, trainingInterval, currentEpoch,
                   modelData, trainCharts, trainingLogs, timers, lastCall,
                   startAfter, completions, ticks>>

\* startTraining without its `if (this.isTraining) return`
StartTrainingUnguarded ==
    /\ isTraining' = TRUE
    /\ currentEpoch' = 0
    /\ trainingLogs' = AddTrainingLog(trainingLogs, "Starting training...")
    /\ trainingInterval' = NewTimerId(timers)
    /\ timers' = timers \cup {NewTimerId(timers)}
    /\ completions' = 0
    /\ epochsStable' = TRUE

\* startTraining without its `this.currentEpoch = 0`
StartTrainingKeepsEpoch ==
    IF isTraining
    THEN UNCHANGED <<isTraining, currentEpoch, trainingLogs, trainingInterval,
                     timers, completions, epochsStable>>
    ELSE /\ isTraining' = TRUE
         /\ UNCHANGED currentEpoch
         /\ trainingLogs' = AddTrainingLog(trainingLogs, "Starting training...")
         /\ trainingInterval' = NewTimerId(timers)
         /\ timers' = timers \cup {NewTimerId(timers)}
         /\ completions' = 0
         /\ epochsStable' = TRUE

StartTrainingBody ==
    IF isTraining
    THEN UNCHANGED <<isTraining, currentEpoch, trainingLogs, trainingInterval,
                     timers, completions, epochsStable>>
    ELSE /\ isTraining' = TRUE
         /\ currentEpoch' = 0
         /\ trainingLogs' = AddTrainingLog(trainingLogs, "Starting training...")
         /\ trainingInterval' = NewTimerId(timers)
         /\ timers' = timers \cup {NewTimerId(timers)}
         /\ completions' = 0
         /\ epochsStable' = TRUE

StartTraining ==
    /\ StartTrainingBody
    /\ lastCall' = "startTraining"
    /\ startAfter' = lastCall
    /\ UNCHANGED <<currentModel, totalEpochs, modelData, trainCharts, ticks>>

\* pauseTraining dropping the handle without clearInterval
PauseTrainingKeepsTimer ==
    IF ~isTraining
    THEN UNCHANGED <<trainingInterval, timers, trainingLogs>>
    ELSE /\ UNCHANGED timers
         /\ trainingInterval' = Null
         /\ trainingLogs' = AddTrainingLog(trainingLogs, "Training paused")

PauseTrainingBody ==
    IF ~isTraining
    THEN UNCHANGED <<trainingInterval, timers, trainingLogs>>
    ELSE /\ timers' = ClearTrainingInterval(timers, trainingInterval)
         /\ trainingInterval' = Null
         /\ trainingLogs' = AddTrainingLog(trainingLogs, "Training paused")

PauseTraining ==
    /\ PauseTrainingBody
    /\ lastCall' = "pauseTraining"
    /\ UNCHANGED <<currentModel, isTraining, currentEpoch, totalEpochs, modelData,
                   trainCharts, startAfter, completions, epochsStable, ticks>>

\* stopTraining also zeroing the counter
StopTrainingResets ==
    /\ isTraining' = FALSE
    /\ timers' = ClearTrainingInterval(timers, trainingInterval)
    /\ trainingInterval' = Null
    /\ trainingLogs' = AddTrainingLog(trainingLogs, "Training stopped")
    /\ currentEpoch' = 0

StopTrainingBody ==
    /\ isTraining' = FALSE
    /\ timers' = ClearTrainingInterval(timers, trainingInterval)
    /\ trainingInterval' = Null
    /\ trainingLogs' = AddTrainingLog(trainingLogs, "Training stopped")
    /\ UNCHANGED currentEpoch

StopTraining ==
    /\ StopTrainingBody
    /\ lastCall' = "stopTraining"
    /\ UNCHANGED <<currentModel, totalEpochs, modelData, trainCharts, startAfter,
                   completions, epochsStable, ticks>>

\* The metrics one epoch appends to the current model's arrays.
NewAccuracy(base) == Min(980000, base + (Random(0) - 3000))

NewLoss(base) == Max(100000, base + 5 * (Random(1) - 7000))

\* the completion test with > for >=
TrainingCompleteStrict(epoch, total) == ~total.nan /\ epoch > total.n

\* `if (this.currentEpoch >= this.totalEpochs)`
TrainingComplete(epoch, total) == GreaterEq(epoch, total)

\* simulateTrainingEpoch, with the completeTraining call it may end in
SimulateTrainingEpoch ==
    LET epoch == currentEpoch + 1
        md    == modelData[currentModel]
        acc   == NewAccuracy(md.accuracy[Len(md.accuracy)])
        loss  == NewLoss(md.loss[Len(md.loss)])
        data  == [modelData EXCEPT ![currentModel] =
                     [accuracy |-> Append(md.accuracy, acc),
                      loss     |-> Append(md.loss, loss)]]
        log1  == IF epoch % 10 = 0
                 THEN AddTrainingLog(trainingLogs, "Epoch progress")
                 ELSE trainingLogs
    IN  /\ currentEpoch' = epoch
        /\ modelData' = data
        /\ trainCharts' = ChartsFor(currentModel, data)
        /\ ticks' = ticks + 1
        /\ IF TrainingComplete(epoch, totalEpochs)
           THEN \* completeTraining
                /\ isTraining' = FALSE
                /\ timers' = ClearTrainingInterval(timers, trainingInterval)
                /\ trainingInterval' = Null
                /\ trainingLogs' = AddTrainingLog(log1, "Training completed!")
                /\ completions' = completions + 1
                /\ lastCall' = "completeTraining"
           ELSE /\ trainingLogs' = log1
                /\ lastCall' = "simulateTrainingEpoch"
                /\ UNCHANGED <<isTraining, timers, trainingInterval, completions>>
        /\ UNCHANGED <<currentModel, totalEpochs, startAfter, epochsStable>>

\* An active interval timer fires its callback.
TimerFires(t) ==
    /\ t \in timers
    /\ ticks < MaxTicks
    /\ SimulateTrainingEpoch

----------------------------------------------------------------------------
(* OceanographicModule: the generation profiles *)

Parameters == <<"temperature", "salinity", "chlorophyll", "ph", "oxygen">>

ParameterKeys == {Parameters[k] : k \in 1 .. Len(Parameters)}

\* sin(i * 2 * PI / 24), i = 0 .. 23, in millionths
SinDaily ==
    <<0, 258819, 500000, 707107, 866025, 965926, 1000000, 965926, 866025, 707107,
      500000, 258819, 0, -258819, -500000, -707107, -866025, -965926, -1000000, -965926,
      -866025, -707107, -500000, -258819>>

\* sin(i * 2 * PI / (24 * 7)), i = 0 .. 167, in millionths
SinWeekly ==
    <<0, 37391, 74730, 111964, 149042, 185912, 222521, 258819, 294755, 330279,
      365341, 399892, 433884, 467269, 500000, 532032, 563320, 593820, 623490, 652287,
      680173, 707107, 733052, 757972, 781831, 804598, 826239, 846724, 866025, 884115,
      900969, 916562, 930874, 943883, 955573, 965926, 974928, 982566, 988831, 993712,
      997204, 999301, 1000000, 999301, 997204, 993712, 988831, 982566, 974928, 965926,
      955573, 943883, 930874, 916562, 900969, 884115, 866025, 846724, 826239, 804598,
      781831, 757972, 733052, 707107, 680173, 652287, 623490, 593820, 563320, 532032,
      500000, 467269, 433884, 399892, 365341, 330279, 294755, 258819, 222521, 185912,
      149042, 111964, 74730, 37391, 0, -37391, -74730, -111964, -149042, -185912,
      -222521, -258819, -294755, -330279, -365341, -399892, -433884, -467269, -500000, -532032,
      -563320, -593820, -623490, -652287, -680173, -707107, -733052, -757972, -781831, -804598,
      -826239, -846724, -866025, -884115, -900969, -916562, -930874, -943883, -955573, -965926,
      -974928, -982566, -988831, -993712, -997204, -999301, -1000000, -999301, -997204, -993712,
      -988831, -982566, -974928, -965926, -955573, -943883, -930874, -916562, -900969, -884115,
      -866025, -846724, -826239, -804598, -781831, -757972, -733052, -707107, -680173, -652287,
      -623490, -593820, -563320, -532032, -500000, -467269, -433884, -399892, -365341, -330279,
      -294755, -258819, -222521, -185912, -149042, -111964, -74730, -37391>>

\* sin(i * 2 * PI / (24 * 14)), i = 0 .. 335, in millionths
SinFortnightly ==
    <<0, 18699, 37391, 56070, 74730, 93364, 111964, 130526, 149042, 167506,
      185912, 204252, 222521, 240712, 258819, 276836, 294755, 312572, 330279, 347871,
      365341, 382683, 399892, 416961, 433884, 450655, 467269, 483719, 500000, 516106,
      532032, 547772, 563320, 578671, 593820, 608761, 623490, 638000, 652287, 666347,
      680173, 693761, 707107, 720205, 733052, 745642, 757972, 770036, 781831, 793353,
      804598, 815561, 826239, 836628, 846724, 856525, 866025, 875223, 884115, 892698,
      900969, 908924, 916562, 923880, 930874, 937542, 943883, 949894, 955573, 960917,
      965926, 970597, 974928, 978918, 982566, 985871, 988831, 991445, 993712, 995632,
      997204, 998427, 999301, 999825, 1000000, 999825, 999301, 998427, 997204, 995632,
      993712, 991445, 988831, 985871, 982566, 978918, 974928, 970597, 965926, 960917,
      955573, 949894, 943883, 937542, 930874, 923880, 916562, 908924, 900969, 892698,
      884115, 875223, 866025, 856525, 846724, 836628, 826239, 815561, 804598, 793353,
      781831, 770036, 757972, 745642, 733052, 720205, 707107, 693761, 680173, 666347,
      652287, 638000, 623490, 608761, 593820, 578671, 563320, 547772, 532032, 516106,
      500000, 483719, 467269, 450655, 433884, 416961, 399892, 382683, 365341, 347871,
      330279, 312572, 294755, 276836, 258819, 240712, 222521, 204252, 185912, 167506,
      149042, 130526, 111964, 93364, 74730, 56070, 37391, 18699, 0, -18699,
      -37391, -56070, -74730, -93364, -111964, -130526, -149042, -167506, -185912, -204252,
      -222521, -240712, -258819, -276836, -294755, -312572, -330279, -347871, -365341, -382683,
      -399892, -416961, -433884, -450655, -467269, -483719, -500000, -516106, -532032, -547772,
      -563320, -578671, -593820, -608761, -623490, -638000, -652287, -666347, -680173, -693761,
      -707107, -720205, -733052, -745642, -757972, -770036, -781831, -793353, -804598, -815561,
      -826239, -836628, -846724, -856525, -866025, -875223, -884115, -892698, -900969, -908924,
      -916562, -923880, -930874, -937542, -943883, -949894, -955573, -960917, -965926, -970597,
      -974928, -978918, -982566, -985871, -988831, -991445, -993712, -995632, -997204, -998427,
      -999301, -999825, -1000000, -999825, -999301, -998427, -997204, -995632, -993712, -991445,
      -988831, -985871, -982566, -978918, -974928, -970597, -965926, -960917, -955573, -949894,
      -943883, -937542, -930874, -923880, -916562, -908924, -900969, -892698, -884115, -875223,
      -866025, -856525, -846724, -836628, -826239, -815561, -804598, -793353, -781831, -770036,
      -757972, -745642, -733052, -720205, -707107, -693761, -680173, -666347, -652287, -638000,
      -623490, -608761, -593820, -578671, -563320, -547772, -532032, -516106, -500000, -483719,
      -467269, -450655, -433884, -416961, -399892, -382683, -365341, -347871, -330279, -312572,
      -294755, -276836, -258819, -240712, -222521, -204252, -185912, -167506, -149042, -130526,
      -111964, -93364, -74730, -56070, -37391, -18699>>

\* sin(i * 2 * PI / (24 * 30)), i = 0 .. 719, in millionths
SinMonthly ==
    <<0, 8727, 17452, 26177, 34899, 43619, 52336, 61049, 69756, 78459,
      87156, 95846, 104528, 113203, 121869, 130526, 139173, 147809, 156434, 165048,
      173648, 182236, 190809, 199368, 207912, 216440, 224951, 233445, 241922, 250380,
      258819, 267238, 275637, 284015, 292372, 300706, 309017, 317305, 325568, 333807,
      342020, 350207, 358368, 366501, 374607, 382683, 390731, 398749, 406737, 414693,
      422618, 430511, 438371, 446198, 453990, 461749, 469472, 477159, 484810, 492424,
      500000, 507538, 515038, 522499, 529919, 537300, 544639, 551937, 559193, 566406,
      573576, 580703, 587785, 594823, 601815, 608761, 615661, 622515, 629320, 636078,
      642788, 649448, 656059, 662620, 669131, 675590, 681998, 688355, 694658, 700909,
      707107, 713250, 719340, 725374, 731354, 737277, 743145, 748956, 754710, 760406,
      766044, 771625, 777146, 782608, 788011, 793353, 798636, 803857, 809017, 814116,
      819152, 824126, 829038, 833886, 838671, 843391, 848048, 852640, 857167, 861629,
      866025, 870356, 874620, 878817, 882948, 887011, 891007, 894934, 898794, 902585,
      906308, 909961, 913545, 917060, 920505, 923880, 927184, 930418, 933580, 936672,
      939693, 942641, 945519, 948324, 951057, 953717, 956305, 958820, 961262, 963630,
      965926, 968148, 970296, 972370, 974370, 976296, 978148, 979925, 981627, 983255,
      984808, 986286, 987688, 989016, 990268, 991445, 992546, 993572, 994522, 995396,
      996195, 996917, 997564, 998135, 998630, 999048, 999391, 999657, 999848, 999962,
      1000000, 999962, 999848, 999657, 999391, 999048, 998630, 998135, 997564, 996917,
      996195, 995396, 994522, 993572, 992546, 991445, 990268, 989016, 987688, 986286,
      984808, 983255, 981627, 979925, 978148, 976296, 974370, 972370, 970296, 968148,
      965926, 963630, 961262, 958820, 956305, 953717, 951057, 948324, 945519, 942641,
      939693, 936672, 933580, 930418, 927184, 923880, 920505, 917060, 913545, 909961,
      906308, 902585, 898794, 894934, 891007, 887011, 882948, 878817, 874620, 870356,
      866025, 861629, 857167, 852640, 848048, 843391, 838671, 833886, 829038, 824126,
      819152, 814116, 809017, 803857, 798636, 793353, 788011, 782608, 777146, 771625,
      766044, 760406, 754710, 748956, 743145, 737277, 731354, 725374, 719340, 713250,
      707107, 700909, 694658, 688355, 681998, 675590, 669131, 662620, 656059, 649448,
      642788, 636078, 629320, 622515, 615661, 608761, 601815, 594823, 587785, 580703,
      573576, 566406, 559193, 551937, 544639, 537300, 529919, 522499, 515038, 507538,
      500000, 492424, 484810, 477159, 469472, 461749, 453990, 446198, 438371, 430511,
      422618, 414693, 406737, 398749, 390731, 382683, 374607, 366501, 358368, 350207,
      342020, 333807, 325568, 317305, 309017, 300706, 292372, 284015, 275637, 267238,
      258819, 250380, 241922, 233445, 224951, 216440, 207912, 199368, 190809, 182236,
      173648, 165048, 156434, 147809, 139173, 130526, 121869, 113203, 104528, 95846,
      87156, 78459, 69756, 61049, 52336, 43619, 34899, 26177, 17452, 8727,
      0, -8727, -17452, -26177, -34899, -43619, -52336, -61049, -69756, -78459,
      -87156, -95846, -104528, -113203, -121869, -130526, -139173, -147809, -156434, -165048,
      -173648, -182236, -190809, -199368, -207912, -216440, -224951, -233445, -241922, -250380,
      -258819, -267238, -275637, -284015, -292372, -300706, -309017, -317305, -325568, -333807,
      -342020, -350207, -358368, -366501, -374607, -382683, -390731, -398749, -406737, -414693,
      -422618, -430511, -438371, -446198, -453990, -461749, -469472, -477159, -484810, -492424,
      -500000, -507538, -515038, -522499, -529919, -537300, -544639, -551937, -559193, -566406,
      -573576, -580703, -587785, -594823, -601815, -608761, -615661, -622515, -629320, -636078,
      -642788, -649448, -656059, -662620, -669131, -675590, -681998, -688355, -694658, -700909,
      -707107, -713250, -719340, -725374, -731354, -737277, -743145, -748956, -754710, -760406,
      -766044, -771625, -777146, -782608, -788011, -793353, -798636, -803857, -809017, -814116,
      -819152, -824126, -829038, -833886, -838671, -843391, -848048, -852640, -857167, -861629,
      -866025, -870356, -874620, -878817, -882948, -887011, -891007, -894934, -898794, -902585,
      -906308, -909961, -913545, -917060, -920505, -923880, -927184, -930418, -933580, -936672,
      -939693, -942641, -945519, -948324, -951057, -953717, -956305, -958820, -961262, -963630,
      -965926, -968148, -970296, -972370, -974370, -976296, -978148, -979925, -981627, -983255,
      -984808, -986286, -987688, -989016, -990268, -991445, -992546, -993572, -994522, -995396,
      -996195, -996917, -997564, -998135, -998630, -999048, -999391, -999657, -999848, -999962,
      -1000000, -999962, -999848, -999657, -999391, -999048, -998630, -998135, -997564, -996917,
      -996195, -995396, -994522, -993572, -992546, -991445, -990268, -989016, -987688, -986286,
      -984808, -983255, -981627, -979925, -978148, -976296, -974370, -972370, -970296, -968148,
      -965926, -963630, -961262, -958820, -956305, -953717, -951057, -948324, -945519, -942641,
      -939693, -936672, -933580, -930418, -927184, -923880, -920505, -917060, -913545, -909961,
      -906308, -902585, -898794, -894934, -891007, -887011, -882948, -878817, -874620, -870356,
      -866025, -861629, -857167, -852640, -848048, -843391, -838671, -833886, -829038, -824126,
      -819152, -814116, -809017, -803857, -798636, -793353, -788011, -782608, -777146, -771625,
      -766044, -760406, -754710, -748956, -743145, -737277, -731354, -725374, -719340, -713250,
      -707107, -700909, -694658, -688355, -681998, -675590, -669131, -662620, -656059, -649448,
      -642788, -636078, -629320, -622515, -615661, -608761, -601815, -594823, -587785, -580703,
      -573576, -566406, -559193, -551937, -544639, -537300, -529919, -522499, -515038, -507538,
      -500000, -492424, -484810, -477159, -469472, -461749, -453990, -446198, -438371, -430511,
      -422618, -414693, -406737, -398749, -390731, -382683, -374607, -366501, -358368, -350207,
      -342020, -333807, -325568, -317305, -309017, -300706, -292372, -284015, -275637, -267238,
      -258819, -250380, -241922, -233445, -224951, -216440, -207912, -199368, -190809, -182236,
      -173648, -165048, -156434, -147809, -139173, -130526, -121869, -113203, -104528, -95846,
      -87156, -78459, -69756, -61049, -52336, -43619, -34899, -26177, -17452, -8727>>

\* sin(i * 2 * PI / (24 * 365)), i = 0 .. 719 (all that 720 hours need), in millionths
SinYearly ==
    <<0, 717, 1435, 2152, 2869, 3586, 4304, 5021, 5738, 6455,
      7173, 7890, 8607, 9324, 10041, 10759, 11476, 12193, 12910, 13627,
      14345, 15062, 15779, 16496, 17213, 17931, 18648, 19365, 20082, 20799,
      21516, 22233, 22950, 23667, 24384, 25101, 25818, 26535, 27252, 27969,
      28686, 29403, 30120, 30837, 31554, 32271, 32988, 33705, 34422, 35138,
      35855, 36572, 37289, 38006, 38722, 39439, 40156, 40872, 41589, 42306,
      43022, 43739, 44455, 45172, 45888, 46605, 47321, 48038, 48754, 49471,
      50187, 50903, 51620, 52336, 53052, 53768, 54485, 55201, 55917, 56633,
      57349, 58065, 58781, 59497, 60213, 60929, 61645, 62361, 63077, 63793,
      64508, 65224, 65940, 66656, 67371, 68087, 68802, 69518, 70233, 70949,
      71664, 72380, 73095, 73810, 74526, 75241, 75956, 76671, 77386, 78102,
      78817, 79532, 80247, 80962, 81676, 82391, 83106, 83821, 84536, 85250,
      85965, 86679, 87394, 88108, 88823, 89537, 90252, 90966, 91680, 92394,
      93109, 93823, 94537, 95251, 95965, 96679, 97393, 98106, 98820, 99534,
      100248, 100961, 101675, 102388, 103102, 103815, 104528, 105242, 105955, 106668,
      107381, 108094, 108807, 109520, 110233, 110946, 111659, 112372, 113084, 113797,
      114510, 115222, 115935, 116647, 117359, 118072, 118784, 119496, 120208, 120920,
      121632, 122344, 123056, 123768, 124479, 125191, 125902, 126614, 127325, 128037,
      128748, 129459, 130171, 130882, 131593, 132304, 133015, 133726, 134436, 135147,
      135858, 136568, 137279, 137989, 138700, 139410, 140120, 140830, 141540, 142250,
      142960, 143670, 144380, 145090, 145799, 146509, 147218, 147928, 148637, 149346,
      150055, 150764, 151474, 152182, 152891, 153600, 154309, 155017, 155726, 156434,
      157143, 157851, 158559, 159268, 159976, 160684, 161391, 162099, 162807, 163515,
      164222, 164930, 165637, 166344, 167052, 167759, 168466, 169173, 169880, 170586,
      171293, 172000, 172706, 173413, 174119, 174825, 175531, 176238, 176944, 177649,
      178355, 179061, 179767, 180472, 181178, 181883, 182588, 183293, 183998, 184703,
      185408, 186113, 186818, 187522, 188227, 188931, 189635, 190340, 191044, 191748,
      192452, 193155, 193859, 194563, 195266, 195970, 196673, 197376, 198079, 198782,
      199485, 200188, 200891, 201593, 202296, 202998, 203700, 204402, 205104, 205806,
      206508, 207210, 207912, 208613, 209315, 210016, 210717, 211418, 212119, 212820,
      213521, 214222, 214922, 215623, 216323, 217023, 217723, 218423, 219123, 219823,
      220523, 221222, 221922, 222621, 223320, 224019, 224718, 225417, 226116, 226814,
      227513, 228211, 228909, 229608, 230306, 231004, 231701, 232399, 233097, 233794,
      234491, 235189, 235886, 236583, 237279, 237976, 238673, 239369, 240066, 240762,
      241458, 242154, 242850, 243545, 244241, 244937, 245632, 246327, 247022, 247717,
      248412, 249107, 249801, 250496, 251190, 251884, 252578, 253272, 253966, 254660,
      255353, 256047, 256740, 257433, 258126, 258819, 259512, 260204, 260897, 261589,
      262281, 262974, 263665, 264357, 265049, 265741, 266432, 267123, 267814, 268505,
      269196, 269887, 270577, 271268, 271958, 272648, 273338, 274028, 274718, 275408,
      276097, 276786, 277475, 278164, 278853, 279542, 280231, 280919, 281607, 282296,
      282984, 283671, 284359, 285047, 285734, 286421, 287109, 287796, 288482, 289169,
      289856, 290542, 291228, 291914, 292600, 293286, 293972, 294657, 295343, 296028,
      296713, 297398, 298082, 298767, 299451, 300136, 300820, 301504, 302188, 302871,
      303555, 304238, 304921, 305604, 306287, 306970, 307652, 308335, 309017, 309699,
      310381, 311063, 311744, 312426, 313107, 313788, 314469, 315150, 315831, 316511,
      317191, 317871, 318551, 319231, 319911, 320590, 321270, 321949, 322628, 323307,
      323985, 324664, 325342, 326020, 326698, 327376, 328054, 328731, 329408, 330086,
      330763, 331439, 332116, 332792, 333469, 334145, 334821, 335497, 336172, 336848,
      337523, 338198, 338873, 339548, 340222, 340897, 341571, 342245, 342919, 343592,
      344266, 344939, 345612, 346285, 346958, 347631, 348303, 348975, 349647, 350319,
      350991, 351663, 352334, 353005, 353676, 354347, 355018, 355688, 356358, 357028,
      357698, 358368, 359037, 359707, 360376, 361045, 361714, 362382, 363051, 363719,
      364387, 365055, 365723, 366390, 367057, 367724, 368391, 369058, 369725, 370391,
      371057, 371723, 372389, 373054, 373720, 374385, 375050, 375715, 376379, 377044,
      377708, 378372, 379036, 379699, 380363, 381026, 381689, 382352, 383015, 383677,
      384339, 385002, 385663, 386325, 386987, 387648, 388309, 388970, 389630, 390291,
      390951, 391611, 392271, 392931, 393590, 394250, 394909, 395567, 396226, 396885,
      397543, 398201, 398859, 399516, 400174, 400831, 401488, 402145, 402801, 403458,
      404114, 404770, 405426, 406081, 406737, 407392, 408047, 408701, 409356, 410010,
      410664, 411318, 411972, 412625, 413279, 413932, 414584, 415237, 415889, 416542,
      417194, 417845, 418497, 419148, 419799, 420450, 421101, 421751, 422402, 423052,
      423701, 424351, 425000, 425649, 426298, 426947, 427596, 428244, 428892, 429540,
      430187, 430835, 431482, 432129, 432776, 433422, 434068, 434714, 435360, 436006,
      436651, 437296, 437941, 438586, 439231, 439875, 440519, 441163, 441806, 442450,
      443093, 443736, 444378, 445021, 445663, 446305, 446947, 447588, 448229, 448870,
      449511, 450152, 450792, 451432, 452072, 452712, 453351, 453990, 454629, 455268,
      455907, 456545, 457183, 457821, 458458, 459096, 459733, 460370, 461006, 461643,
      462279, 462915, 463550, 464186, 464821, 465456, 466091, 466725, 467359, 467993,
      468627, 469260, 469894, 470527, 471160, 471792, 472424, 473056, 473688, 474320,
      474951, 475582, 476213, 476844, 477474, 478104, 478734, 479363, 479993, 480622,
      481251, 481879, 482508, 483136, 483764, 484391, 485019, 485646, 486273, 486899,
      487526, 488152, 488778, 489403, 490029, 490654, 491279, 491903, 492528, 493152>>

\* table[i mod period], the table indexed from 0
Sine(table, i) == table[(i % Len(table)) + 1]

\* (Math.random() - 0.5) * amplitude, in millionths, the amplitude in
\* hundredths, for the draw r
Noise(r, hundredths) == (r - 5000) * hundredths

\* The hours of history loadHistoricalData generates for a forecast range.
HoursOf(range) == IF range = "24h" THEN 24 ELSE IF range = "7d" THEN 168 ELSE 720

\* A sample `{ timestamp, value, predicted }` of a buffer, held as the triple
\* of its three fields.
Sample(timestamp, value, predicted) == <<timestamp, value, predicted>>

Timestamp(sample) == sample[1]

Value(sample) == sample[2]

Predicted(sample) == sample[3]

\* The sample loadHistoricalData pushes for parameter p in iteration i of its
\* loop, drawing from a generator seeded with `seed`; the bulk generation
\* instant is the origin of the clock.
BulkSample(p, i, hours, seed) ==
    LET timestamp == 0 - (hours - i) * SecondsPerHour
    IN  CASE p = "temperature" ->
               LET shape == 28500000 + (Sine(SinDaily, i) * 3) \div 2 + Sine(SinYearly, i) * 2
               IN  Sample(timestamp,
                    shape + Noise(Draw(seed, 0), 80),
                    shape + (Noise(Draw(seed, 0), 80) * 3) \div 10)
          [] p = "salinity" ->
               LET shape == 34200000 + Sine(SinWeekly, i) \div 2
               IN  Sample(timestamp,
                    shape + Noise(Draw(seed, 1), 30),
                    shape + Noise(Draw(seed, 2), 10))
          [] p = "chlorophyll" ->
               LET shape == 2100000 + (Sine(SinMonthly, i) * 6) \div 5
               IN  Sample(timestamp,
                    Max(100000, shape + Noise(Draw(seed, 3), 80)),
                    Max(100000, shape + Noise(Draw(seed, 4), 40)))
          [] p = "ph" ->
               LET shape == 8100000 + (Sine(SinFortnightly, i) * 3) \div 20
               IN  Sample(timestamp,
                    shape + Noise(Draw(seed, 5), 10),
                    shape + Noise(Draw(seed, 6), 5))
          [] p = "oxygen" ->
               LET shape == 6800000 + (Sine(SinDaily, i) * 4) \div 5
               IN  Sample(timestamp,
                    shape + Noise(Draw(seed, 7), 40),
                    shape + Noise(Draw(seed, 8), 20))

\* the generation loop running once too often (i <= hours)
GenerateHistoryInclusive(range, seed) ==
    [p \in ParameterKeys |->
        [k \in 1 .. HoursOf(range) + 1 |-> BulkSample(p, k - 1, HoursOf(range), seed)]]

\* The buffers loadHistoricalData builds: `hours` samples for every key.
GenerateHistory(range, seed) ==
    [p \in ParameterKeys |->
        [k \in 1 .. HoursOf(range) |-> BulkSample(p, k - 1, HoursOf(range), seed)]]

\* The values the forecast-range select can deliver.
RangeChoices == {"24h", "7d", "30d"}

\* GenerateHistory, evaluated once for every range and seed.
GeneratedHistory ==
    [range \in RangeChoices |-> [seed \in Seeds |-> GenerateHistory(range, seed)]]

\* loadHistoricalData for the range given
LoadHistoricalData(range) == GeneratedHistory[range][rngSeed]

----------------------------------------------------------------------------
(* OceanographicModule: the charts and the parameter card *)

\* array.slice(start, end) with JS's negative and out-of-range indices
Slice(a, start, end) ==
    LET len  == Len(a)
        from == IF start < 0 THEN Max(len + start, 0) ELSE Min(start, len)
        to   == IF end < 0 THEN Max(len + end, 0) ELSE Min(end, len)
    IN  SubSeq(a, from + 1, to)

\* The lengths n <= 1010 for which the double n * 0.7 falls just below the
\* integer 7n/10, so that Math.floor gives one less.
RoundsBelow == {90, 170, 180, 330, 340, 350, 360, 650, 660, 670, 680, 690,
                700, 710, 720, 730}

\* Math.floor(data.length * 0.7)
SplitPoint(len) == (len * 7) \div 10 - (IF len \in RoundsBelow THEN 1 ELSE 0)

\* `this.historicalData[key] || []`
BufferOf(data, key) == IF key \in DOMAIN data THEN data[key] ELSE <<>>

\* The hour a label of the forecast chart shows (month, day, hour), and the
\* day a label of the historical chart shows: samples of one hour, or of one
\* day, share a label.
HourLabel(timestamp) == timestamp \div SecondsPerHour

DayLabel(timestamp) == timestamp \div (24 * SecondsPerHour)

\* createForecastChart with the forecast cut at the split point (no overlap)
ForecastChartNoOverlap(data, key) ==
    LET d          == BufferOf(data, key)
        splitPoint == SplitPoint(Len(d))
        historical == Slice(d, 0, splitPoint)
        forecast   == Slice(d, splitPoint, Len(d))
    IN  [labels     |-> [k \in 1 .. Len(d) |-> HourLabel(Timestamp(d[k]))],
         historical |-> [k \in 1 .. Len(historical) |-> Value(historical[k])],
         forecast   |-> [k \in 1 .. Len(forecast) |-> Predicted(forecast[k])]]

\* createForecastChart: the labels and the two datasets handed to the chart
ForecastChart(data, key) ==
    LET d          == BufferOf(data, key)
        splitPoint == SplitPoint(Len(d))
        historical == Slice(d, 0, splitPoint)
        forecast   == Slice(d, splitPoint - 1, Len(d))
    IN  [labels     |-> [k \in 1 .. Len(d) |-> HourLabel(Timestamp(d[k]))],
         historical |-> [k \in 1 .. Len(historical) |-> Value(historical[k])],
         forecast   |-> [k \in 1 .. Len(forecast) |-> Predicted(forecast[k])]]

\* createHistoricalChart
HistoricalChart(data, key) ==
    LET d == BufferOf(data, key)
    IN  [labels |-> [k \in 1 .. Len(d) |-> DayLabel(Timestamp(d[k]))],
         values |-> [k \in 1 .. Len(d) |-> Value(d[k])]]

CreateCharts(data, key) ==
    [forecast |-> ForecastChart(data, key), historical |-> HistoricalChart(data, key)]

\* `latest.value - (previous?.value || latest.value)`, previous the sample
\* 24 before the last: a missing sample, and a value of 0, fall back
Change(d) ==
    LET latest == d[Len(d)]
        back   == IF Len(d) >= 25 /\ Value(d[Len(d) - 24]) # 0
                  THEN Value(d[Len(d) - 24])
                  ELSE Value(latest)
    IN  Value(latest) - back

\* the trend with the thresholds included (>= 0.1, <= -0.1)
TrendClassInclusive(change) ==
    IF change >= 100000 THEN "positive"
    ELSE IF change <= 0 - 100000 THEN "negative" ELSE "stable"

\* the class the trend element gets: the threshold is 0.1
TrendClass(change) ==
    IF change > 100000 THEN "positive"
    ELSE IF change < 0 - 100000 THEN "negative" ELSE "stable"

\* updateParameterCards: what it writes into the temperature card, which it
\* does only for the temperature parameter and a buffer with samples
ParameterCard(data, key) ==
    LET d == BufferOf(data, key)
    IN  IF d = <<>> \/ key # "temperature" THEN [written |-> FALSE]
        ELSE [written |-> TRUE,
              value   |-> Value(d[Len(d)]),
              change  |-> Change(d),
              trend   |-> TrendClass(Change(d))]

\* updateParameterCards: the sample it reads off the buffer of the current
\* parameter and the change and trend it derives, which is nothing when the
\* buffer is missing or empty; the trend is derived for temperature only
ParameterReading(data, key) ==
    LET d == BufferOf(data, key)
    IN  IF d = <<>> THEN [read |-> FALSE]
        ELSE [read   |-> TRUE,
              latest |-> d[Len(d)],
              change |-> Change(d),
              trend  |-> IF key = "temperature" THEN TrendClass(Change(d)) ELSE "none"]

\* A value a method returns: a string, or a member inherited from
\* Object.prototype (a function, or the prototype itself).
Text(text) == [string |-> TRUE, text |-> text]

Inherited(name) == [string |-> FALSE, text |-> name]

\* the own properties of the `units` literal (the degree sign and the
\* superscript 3 of the labels are written in ASCII)
Units ==
    [temperature |-> "Temperature (C)",
     salinity    |-> "Salinity (ppt)",
     chlorophyll |-> "Chlorophyll-a (mg/m3)",
     ph          |-> "pH Level",
     oxygen      |-> "Dissolved Oxygen (mg/L)"]

\* names every object literal inherits from Object.prototype, all truthy
ObjectPrototypeMembers ==
    {"constructor", "toString", "valueOf", "hasOwnProperty", "__proto__"}

\* getParameterUnit: `units[parameter] || 'Value'`. The property read follows
\* the prototype chain of the literal.
GetParameterUnit(parameter) ==
    IF parameter \in DOMAIN Units THEN Text(Units[parameter])
    ELSE IF parameter \in ObjectPrototypeMembers THEN Inherited(parameter)
    ELSE Text("Value")

NoCall == [called |-> FALSE]

----------------------------------------------------------------------------
(* OceanographicModule: construction and operations *)

\* The values the three selects deliver to their change handlers; "turbidity"
\* is a key no buffer exists for.
ParameterChoices == {"temperature", "chlorophyll", "turbidity"}

StationChoices == {"all", "kochi"}

\* CreateCharts on freshly generated history, evaluated once for every range,
\* seed and parameter.
ChartsOfHistory ==
    [range \in RangeChoices |-> [seed \in Seeds |-> [key \in ParameterChoices |->
        CreateCharts(GeneratedHistory[range][seed], key)]]]

\* No module exists: the fields have the values the constructor starts from.
OceanographicNotBuilt ==
    /\ currentParameter = "temperature"
    /\ currentStation = "all"
    /\ forecastRange = "7d"
    /\ historicalData = [p \in ParameterKeys |-> <<>>]
    /\ oceanCharts = CreateCharts([p \in ParameterKeys |-> <<>>], "temperature")
    /\ cardReading = [read |-> FALSE]
    /\ liveTimers = 0
    /\ liveFired = 0
    /\ now = 0
    /\ appended = 0
    /\ intervalAppends = 0
    /\ clockSetBacks = 0

\* constructor and init(): the history of the last 7 days, the charts and the
\* live timer, whose first firing is one interval away
OceanographicInit ==
    /\ currentParameter = "temperature"
    /\ currentStation = "all"
    /\ forecastRange = "7d"
    /\ historicalData = LoadHistoricalData("7d")
    /\ oceanCharts = ChartsOfHistory["7d"][rngSeed]["temperature"]
    /\ cardReading = ParameterReading(LoadHistoricalData("7d"), "temperature")
    /\ liveTimers = 1
    /\ liveFired = 1
    /\ now = 0
    /\ appended = HoursOf("7d")
    /\ intervalAppends = 0
    /\ clockSetBacks = 0

\* updateCharts(): the buffers are rebuilt, at the present instant, whichever
\* control changed, and the charts are rebuilt from them
UpdateCharts(parameter, range) ==
    LET data == LoadHistoricalData(range)
    IN  /\ historicalData' = data
        /\ oceanCharts' = ChartsOfHistory[range][rngSeed][parameter]
        /\ cardReading' = ParameterReading(data, parameter)
        /\ now' = 0
        /\ appended' = HoursOf(range)
        /\ UNCHANGED <<liveTimers, liveFired, intervalAppends, clockSetBacks>>

\* the change handlers of the three selects (setupControls)
ParameterChange(value) ==
    /\ currentParameter' = value
    /\ UpdateCharts(value, forecastRange)
    /\ UNCHANGED <<currentStation, forecastRange>>

StationChange(value) ==
    /\ currentStation' = value
    /\ UpdateCharts(currentParameter, forecastRange)
    /\ UNCHANGED <<currentParameter, forecastRange>>

RangeChange(value) ==
    /\ forecastRange' = value
    /\ UpdateCharts(currentParameter, value)
    /\ UNCHANGED <<currentParameter, currentStation>>

\* the new sample put at the head (unshift) instead of the tail (push)
LiveAppendAtHead(d, sample) ==
    LET pushed == <<sample>> \o d
    IN  IF Len(pushed) > RetentionCap THEN Tail(pushed) ELSE pushed

\* the append without the eviction
LiveAppendKeepsAll(d, sample) == Append(d, sample)

\* the eviction taking the newest sample (pop) instead of the oldest (shift)
LiveAppendDropsNewest(d, sample) ==
    LET pushed == Append(d, sample)
    IN  IF Len(pushed) > RetentionCap THEN SubSeq(pushed, 1, Len(pushed) - 1) ELSE pushed

\* What one pass of updateCurrentValues does to a buffer: the new sample goes
\* to the tail, and a buffer longer than the cap loses its head.
LiveAppend(d, sample) ==
    LET pushed == Append(d, sample)
    IN  IF Len(pushed) > RetentionCap THEN Tail(pushed) ELSE pushed

\* The sample updateCurrentValues makes for the k-th key: a step from the
\* buffer's last value.
LiveSample(d, k, timestamp) ==
    LET newValue == Value(d[Len(d)]) + Noise(Random(2 * (k - 1)), 20)
    IN  Sample(timestamp,
         newValue,
         newValue + Noise(Random(2 * (k - 1) + 1), 10))

\* updateCurrentValues with the cards updated before the buffers
UpdateCurrentValuesCardsFirst(t) ==
    LET data == [p \in ParameterKeys |->
                    LET k == CHOOSE j \in 1 .. Len(Parameters) : Parameters[j] = p
                    IN  LiveAppend(historicalData[p], LiveSample(historicalData[p], k, t))]
    IN  /\ cardReading' = ParameterReading(historicalData, currentParameter)
        /\ historicalData' = data
        /\ appended' = appended + 1
        /\ UNCHANGED <<currentParameter, currentStation, forecastRange, oceanCharts>>

\* updateCurrentValues at instant t: one sample more in every buffer, then
\* updateParameterCards
UpdateCurrentValues(t) ==
    LET data == [p \in ParameterKeys |->
                    LET k == CHOOSE j \in 1 .. Len(Parameters) : Parameters[j] = p
                    IN  LiveAppend(historicalData[p], LiveSample(historicalData[p], k, t))]
    IN  /\ historicalData' = data
        /\ cardReading' = ParameterReading(data, currentParameter)
        /\ appended' = appended + 1
        /\ UNCHANGED <<currentParameter, currentStation, forecastRange, oceanCharts>>

\* The ticks explored after a rebuild: enough for the longest history to
\* overflow the cap MaxOverflow times.
LiveTickLimit == RetentionCap - HoursOf("30d") + 1 + MaxOverflow

\* One of the live timers fires.  When every timer has fired in the current
\* interval, the firing is the first of the next interval, 30 s later.
LiveTimerFires ==
    /\ liveTimers >= 1
    /\ appended - HoursOf(forecastRange)
          < (IF liveTimers = 1 /\ clockSetBacks = 0 THEN LiveTickLimit ELSE MaxSharedTicks)
    /\ IF liveFired = liveTimers
       THEN /\ now' = now + LiveInterval
            /\ liveFired' = 1
            /\ intervalAppends' = 1
            /\ UpdateCurrentValues(now + LiveInterval)
       ELSE /\ UNCHANGED now
            /\ liveFired' = liveFired + 1
            /\ intervalAppends' = intervalAppends + 1
            /\ UpdateCurrentValues(now)
    /\ UNCHANGED <<liveTimers, clockSetBacks>>

\* startRealTimeUpdates(): one more interval timer, first due an interval on
StartRealTimeUpdates ==
    /\ liveTimers < MaxLiveTimers
    /\ liveTimers' = liveTimers + 1
    /\ liveFired' = liveFired + 1
    /\ UNCHANGED <<currentParameter, currentStation, forecastRange, historicalData,
                   oceanCharts, cardReading, now, appended, intervalAppends,
                   clockSetBacks>>

----------------------------------------------------------------------------
(* SpeciesMap *)

\* loadSpeciesData: the five species of the mock data; lastSeen is held as
\* the hours it lies before the load
SpeciesData ==
    << [id |-> 1, confidence |-> 96, status |-> "LC", type |-> "fish",
        hoursAgo |-> 2],
       [id |-> 2, confidence |-> 87, status |-> "EN", type |-> "fish",
        hoursAgo |-> 4],
       [id |-> 3, confidence |-> 78, status |-> "CR", type |-> "fish",
        hoursAgo |-> 6],
       [id |-> 4, confidence |-> 94, status |-> "LC", type |-> "fish",
        hoursAgo |-> 1],
       [id |-> 5, confidence |-> 92, status |-> "LC", type |-> "crustaceans",
        hoursAgo |-> 3] >>

\* the values the two selects can take
SpeciesFilterChoices == {"all", "fish", "crustaceans", "mammals", "endangered"}

ConfidenceFilterChoices == {"all", "high", "medium", "low"}

\* the callback of applyFilters: the species is kept
KeptByFilters(species, speciesValue, confidenceValue) ==
    /\ ~(speciesValue # "all" /\ species.type # speciesValue)
    /\ ~(speciesValue = "endangered" /\ species.status \notin {"EN", "CR"})
    /\ ~(confidenceValue = "high" /\ species.confidence < 90)
    /\ ~(/\ confidenceValue = "medium"
         /\ (species.confidence < 70 \/ species.confidence >= 90))
    /\ ~(confidenceValue = "low" /\ species.confidence >= 70)

\* this.speciesData.filter(...)
FilterSpecies(data, speciesValue, confidenceValue) ==
    LET Kept(species) == KeptByFilters(species, speciesValue, confidenceValue)
    IN  SelectSeq(data, Kept)

\* data.sort((a, b) => b.lastSeen - a.lastSeen): the latest first, the sort
\* being stable
RECURSIVE InsertByLastSeen(_, _)
InsertByLastSeen(sorted, species) ==
    IF sorted = <<>> THEN <<species>>
    ELSE IF species.hoursAgo < Head(sorted).hoursAgo
         THEN <<species>> \o sorted
         ELSE <<Head(sorted)>> \o InsertByLastSeen(Tail(sorted), species)

RECURSIVE SortByLastSeen(_)
SortByLastSeen(data) ==
    IF data = <<>> THEN <<>>
    ELSE InsertByLastSeen(SortByLastSeen(SubSeq(data, 1, Len(data) - 1)),
                          data[Len(data)])

IdsOf(data) == [k \in 1 .. Len(data) |-> data[k].id]

\* renderMarkers: one marker per element of filteredData
RenderMarkers(data) == IdsOf(data)

\* updateRecentDetections: returns at once without #recent-detections;
\* otherwise sorts filteredData in place and lists its first five
RecentDetectionsOf(data) ==
    LET sorted == SortByLastSeen(data)
    IN  IdsOf(SubSeq(sorted, 1, Min(5, Len(sorted))))

\* constructor and init(): loadSpeciesData, which awaits nothing, then
\* updateRecentDetections; the selects show 'all'
SpeciesMapInit(present) ==
    /\ detectionsPresent = present
    /\ speciesData = SpeciesData
    /\ filteredData = IF detectionsPresent THEN SortByLastSeen(SpeciesData)
                      ELSE SpeciesData
    /\ heatmapVisible = FALSE
    /\ speciesFilter = "all"
    /\ confidenceFilter = "all"
    /\ mapMarkers = RenderMarkers(SpeciesData)
    /\ recentDetections = IF detectionsPresent THEN RecentDetectionsOf(SpeciesData)
                          ELSE <<>>
    /\ refreshTimeouts = 0

\* applyFilters: filter, renderMarkers, updateRecentDetections
ApplyFilters ==
    LET kept == FilterSpecies(speciesData, speciesFilter', confidenceFilter')
    IN  /\ mapMarkers' = RenderMarkers(kept)
        /\ IF detectionsPresent
           THEN /\ filteredData' = SortByLastSeen(kept)
                /\ recentDetections' = RecentDetectionsOf(kept)
           ELSE /\ filteredData' = kept
                /\ UNCHANGED recentDetections
        /\ UNCHANGED <<speciesData, heatmapVisible, detectionsPresent,
                       refreshTimeouts>>

\* the user picks a value of #species-filter: the change listener
SpeciesFilterChange(value) ==
    /\ value \in SpeciesFilterChoices
    /\ speciesFilter' = value
    /\ UNCHANGED confidenceFilter
    /\ ApplyFilters

\* the user picks a value of #confidence-filter
ConfidenceFilterChange(value) ==
    /\ value \in ConfidenceFilterChoices
    /\ confidenceFilter' = value
    /\ UNCHANGED speciesFilter
    /\ ApplyFilters

ToggleHeatmap ==
    /\ heatmapVisible' = ~heatmapVisible
    /\ UNCHANGED <<speciesData, filteredData, speciesFilter, confidenceFilter,
                   mapMarkers, recentDetections, detectionsPresent,
                   refreshTimeouts>>

\* refresh timeouts explored pending at once
MaxRefreshes == 2

\* refreshData: the button turns, a timeout of 500 ms is set
RefreshData ==
    /\ refreshTimeouts < MaxRefreshes
    /\ refreshTimeouts' = refreshTimeouts + 1
    /\ UNCHANGED <<speciesData, filteredData, heatmapVisible, speciesFilter,
                   confidenceFilter, mapMarkers, recentDetections,
                   detectionsPresent>>

\* loadSpeciesData: the data again, filteredData a copy of all of it,
\* renderMarkers
LoadSpeciesData ==
    /\ speciesData' = SpeciesData
    /\ filteredData' = SpeciesData
    /\ mapMarkers' = RenderMarkers(SpeciesData)

\* the timeout of refreshData runs
RefreshTimeout ==
    /\ refreshTimeouts > 0
    /\ refreshTimeouts' = refreshTimeouts - 1
    /\ LoadSpeciesData
    /\ UNCHANGED <<heatmapVisible, speciesFilter, confidenceFilter,
                   recentDetections, detectionsPresent>>

----------------------------------------------------------------------------
(* EDNAAnalysis *)

\* the waits of simulateAnalysis: one second for each of its six steps
AnalysisSteps == 6

\* constructor and init()
EDNAAnalysisInit ==
    /\ isAnalyzing = FALSE
    /\ analysisResults = "none"
    /\ analysisStepsLeft = <<>>
    /\ startDisabled = FALSE

\* startAnalysis without its `if (this.isAnalyzing) return`
StartAnalysisUnguarded ==
    /\ Len(analysisStepsLeft) < 2
    /\ isAnalyzing' = TRUE
    /\ startDisabled' = TRUE
    /\ loadingShown' = TRUE
    /\ analysisStepsLeft' = Append(analysisStepsLeft, AnalysisSteps)
    /\ UNCHANGED analysisResults

\* startAnalysis up to the first await of simulateAnalysis: nothing when an
\* analysis is in flight; else the flag, the button, showLoading, the first
\* timeout
StartAnalysis ==
    IF isAnalyzing
    THEN UNCHANGED <<isAnalyzing, startDisabled, loadingShown, analysisStepsLeft,
                     analysisResults>>
    ELSE /\ isAnalyzing' = TRUE
         /\ startDisabled' = TRUE
         /\ loadingShown' = TRUE
         /\ analysisStepsLeft' = Append(analysisStepsLeft, AnalysisSteps)
         /\ UNCHANGED analysisResults

\* the end of startAnalysis: generateMockResults, then displayResults and
\* createResultCharts, which succeed (alert 'success') or throw (`new Chart`
\* on a canvas in use; alert 'danger'); then `finally`
AnalysisEnds(failed) ==
    /\ analysisResults' = "mock"
    /\ lastAlert' = IF failed THEN "danger" ELSE "success"
    /\ isAnalyzing' = FALSE
    /\ loadingShown' = FALSE
    /\ startDisabled' = FALSE

\* the sequence without its k-th element
Without(sequence, k) ==
    SubSeq(sequence, 1, k - 1) \o SubSeq(sequence, k + 1, Len(sequence))

\* a timeout of simulateAnalysis runs for the k-th analysis in flight: its
\* next step, or after the last one the rest of startAnalysis
AnalysisTimeout(k, failed) ==
    /\ k \in 1 .. Len(analysisStepsLeft)
    /\ IF analysisStepsLeft[k] = 1
       THEN /\ analysisStepsLeft' = Without(analysisStepsLeft, k)
            /\ AnalysisEnds(failed)
       ELSE /\ ~failed
            /\ analysisStepsLeft' = [analysisStepsLeft EXCEPT ![k] = @ - 1]
            /\ UNCHANGED <<isAnalyzing, analysisResults, startDisabled,
                           loadingShown, lastAlert>>

----------------------------------------------------------------------------
(* OtolithClassifier *)

NoImage == [name |-> "", type |-> <<>>]

\* loadSampleImage: { name: 'sample_otolith.svg', type: 'image/svg+xml' }
SampleImage ==
    [name |-> "sample_otolith.svg",
     type |-> <<"i", "m", "a", "g", "e", "/", "s", "v", "g", "+", "x", "m", "l">>]

\* the files a user may hand over: an image, a text file, a file whose type
\* the browser does not know (''), and one whose type only holds 'image'
FileChoices ==
    { [name |-> "otolith.png",
       type |-> <<"i", "m", "a", "g", "e", "/", "p", "n", "g">>],
      [name |-> "notes.txt",
       type |-> <<"t", "e", "x", "t", "/", "p", "l", "a", "i", "n">>],
      [name |-> "scan.raw", type |-> <<>>],
      [name |-> "image", type |-> <<"i", "m", "a", "g", "e">>] }

\* String.prototype.startsWith
StartsWith(string, prefix) ==
    /\ Len(string) >= Len(prefix)
    /\ SubSeq(string, 1, Len(prefix)) = prefix

ImagePrefix == <<"i", "m", "a", "g", "e", "/">>

\* the species of sampleSpecies, by index
SampleSpecies == 1 .. 3

NoClassification == [inFlight |-> 0, result |-> 0]

\* constructor and init(); the page decides whether #classify-btn starts
\* disabled
OtolithClassifierInit(disabled) ==
    /\ currentImage = NoImage
    /\ isClassifying = FALSE
    /\ classifyDisabled = disabled
    /\ previewImage = NoImage
    /\ readerPending = {}
    /\ classification = NoClassification

\* handleImageUpload reading every file, whatever its type
HandleImageUploadAnyType(file) ==
    /\ readerPending' = readerPending \cup {file}
    /\ UNCHANGED <<currentImage, isClassifying, classifyDisabled, previewImage,
                   classification, lastAlert>>

\* handleImageUpload(file): a warning for a file that is not an image, else
\* a FileReader is started
HandleImageUpload(file) ==
    IF ~StartsWith(file.type, ImagePrefix)
    THEN /\ lastAlert' = "warning"
         /\ UNCHANGED otolithVars
    ELSE /\ readerPending' = readerPending \cup {file}
         /\ UNCHANGED <<currentImage, isClassifying, classifyDisabled,
                        previewImage, classification, lastAlert>>

\* displayImage: the preview, and the classify button enabled
DisplayImage(file) ==
    /\ previewImage' = file
    /\ classifyDisabled' = FALSE

\* reader.onload: displayImage, then currentImage
ReaderLoads(file) ==
    /\ file \in readerPending
    /\ readerPending' = readerPending \ {file}
    /\ DisplayImage(file)
    /\ currentImage' = file
    /\ UNCHANGED <<isClassifying, classification, lastAlert>>

\* loadSampleImage
LoadSampleImage ==
    /\ DisplayImage(SampleImage)
    /\ currentImage' = SampleImage
    /\ UNCHANGED <<isClassifying, readerPending, classification, lastAlert>>

\* classifyImage without the isClassifying half of its guard
ClassifyImageUnguarded ==
    /\ IF currentImage = NoImage
       THEN UNCHANGED <<isClassifying, classifyDisabled, loadingShown, classification>>
       ELSE /\ classification.inFlight < 2
            /\ isClassifying' = TRUE
            /\ classifyDisabled' = TRUE
            /\ loadingShown' = TRUE
            /\ classification' = [classification EXCEPT !.inFlight = @ + 1]
    /\ UNCHANGED <<currentImage, previewImage, readerPending, lastAlert>>

\* classifyImage up to the await of performClassification
ClassifyImage ==
    /\ IF currentImage = NoImage \/ isClassifying
       THEN UNCHANGED <<isClassifying, classifyDisabled, loadingShown, classification>>
       ELSE /\ isClassifying' = TRUE
            /\ classifyDisabled' = TRUE
            /\ loadingShown' = TRUE
            /\ classification' = [classification EXCEPT !.inFlight = @ + 1]
    /\ UNCHANGED <<currentImage, previewImage, readerPending, lastAlert>>

\* the 2 s timeout of performClassification runs: a species is drawn, then
\* displayResults succeeds (alert 'success') or throws (alert 'danger'); then
\* `finally`
ClassificationTimeout(species, failed) ==
    /\ classification.inFlight > 0
    /\ species \in SampleSpecies
    /\ classification' = [inFlight |-> classification.inFlight - 1,
                          result |-> IF failed THEN classification.result
                                     ELSE species]
    /\ lastAlert' = IF failed THEN "danger" ELSE "success"
    /\ isClassifying' = FALSE
    /\ loadingShown' = FALSE
    /\ classifyDisabled' = FALSE

(* AIAssistant *)

\* What the user can leave in #chat-input, as a sequence of characters; a
\* word stands for its letters.  Each word of the model is one of the listed
\* keywords, or contains none of them.
ChatInputs ==
    { <<>>, <<" ", "\n">>, <<" ", "DNA", "\n">>, <<"climate">> }

\* the characters String.prototype.trim removes
Whitespace == {" ", "\n", "\t"}

\* String.prototype.trim
RECURSIVE TrimStart(_)
TrimStart(text) ==
    IF text # <<>> /\ Head(text) \in Whitespace
    THEN TrimStart(Tail(text))
    ELSE text

RECURSIVE TrimEnd(_)
TrimEnd(text) ==
    IF text # <<>> /\ text[Len(text)] \in Whitespace
    THEN TrimEnd(SubSeq(text, 1, Len(text) - 1))
    ELSE text

Trim(text) == TrimEnd(TrimStart(text))

\* String.prototype.toLowerCase
ToLowerCase(text) ==
    [i \in DOMAIN text |-> IF text[i] = "DNA" THEN "dna" ELSE text[i]]

\* the keys of this.responses other than 'default', in the order of Object.entries
ResponseKeys ==
    <<"endangered", "temperature", "biodiversity", "edna", "conservation",
      "fishing", "climate">>

\* keywordMappings of matchesKeyword
KeywordMappings ==
    [keyword \in {ResponseKeys[k] : k \in DOMAIN ResponseKeys} |->
        CASE keyword = "endangered" ->
                {"endangered", "threat", "critical", "conservation", "extinct",
                 "vulnerable", "iucn", "red list"}
          [] keyword = "temperature" ->
                {"temperature", "warming", "heat", "thermal", "climate", "hot",
                 "cold", "degrees"}
          [] keyword = "biodiversity" ->
                {"biodiversity", "diversity", "rich", "hotspot", "variety",
                 "species count", "abundance"}
          [] keyword = "edna" ->
                {"edna", "dna", "genetic", "molecular", "sequence",
                 "metabarcoding", "environmental dna"}
          [] keyword = "conservation" ->
                {"conservation", "protect", "preserve", "sustainable",
                 "management", "mpa", "marine protected"}
          [] keyword = "fishing" ->
                {"fishing", "fisheries", "catch", "harvest", "overfishing",
                 "sustainable fishing"}
          [] keyword = "climate" ->
                {"climate", "change", "warming", "acidification", "sea level",
                 "ph", "carbon dioxide"}]

\* matchesKeyword: some keyword of the list occurs in the message
MatchesKeyword(message, keyword) ==
    \E i \in DOMAIN message : message[i] \in KeywordMappings[keyword]

\* processMessage, after its timeout: the key of the response returned
ProcessMessage(message) ==
    LET lowerMessage == ToLowerCase(message)
        matching == {k \in DOMAIN ResponseKeys :
                        MatchesKeyword(lowerMessage, ResponseKeys[k])}
    IN IF matching = {}
       THEN "default"
       ELSE ResponseKeys[CHOOSE k \in matching : \A other \in matching : k <= other]

\* the chat of the page and the instances constructed so far
ChatPage ==
    [assistants |-> assistants, chatInput |-> chatInput, chatMessages |-> chatMessages]

ChatPageBecomes(page) ==
    /\ assistants' = page.assistants
    /\ chatInput' = page.chatInput
    /\ chatMessages' = page.chatMessages

\* the page before any AIAssistant is constructed: #chat-messages may be
\* missing, and may hold `children` messages written in the HTML
ChatPageInit(present, children) ==
    /\ assistants = <<>>
    /\ chatInput = <<>>
    /\ chatMessages = [present |-> present, children |-> children, typing |-> 0]

\* addMessage of instance i: without #chat-messages nothing happens; else the
\* message is appended to the element and pushed on conversationHistory
\* (timestamps are not modelled)
AddMessage(page, i, text, sender) ==
    IF ~page.chatMessages.present
    THEN page
    ELSE [page EXCEPT !.chatMessages.children = @ + 1,
                      !.assistants[i].conversationHistory =
                            Append(@, [text |-> text, sender |-> sender])]

\* showTypingIndicator
ShowTypingIndicator(page) ==
    IF ~page.chatMessages.present
    THEN page
    ELSE [page EXCEPT !.chatMessages.typing = @ + 1]

\* hideTypingIndicator: removes one element with id typing-indicator, if any
HideTypingIndicator(page) ==
    IF page.chatMessages.typing > 0
    THEN [page EXCEPT !.chatMessages.typing = @ - 1]
    ELSE page

\* addWelcomeMessage
AddWelcomeMessage(page, i) ==
    IF page.chatMessages.present
       /\ page.chatMessages.children + page.chatMessages.typing = 0
    THEN AddMessage(page, i, <<"welcome">>, "ai")
    ELSE page

\* new AIAssistant(), at each opening of the assistant's view: the listeners
\* of the earlier instances stay on the elements
NewAIAssistant ==
    /\ Len(assistants) < MaxAssistants
    /\ LET built == [ChatPage EXCEPT !.assistants =
                        Append(@, [conversationHistory |-> <<>>,
                                   isProcessing |-> FALSE,
                                   processing |-> <<>>])]
       IN ChatPageBecomes(AddWelcomeMessage(built, Len(built.assistants)))

\* sendMessage without the test of isProcessing
SendMessageUnguarded(page, i) ==
    LET message == Trim(page.chatInput)
    IN IF message = <<>> \/ Len(page.assistants[i].processing) >= 2
       THEN page
       ELSE LET cleared == [page EXCEPT !.chatInput = <<>>]
                typing == ShowTypingIndicator(AddMessage(cleared, i, message, "user"))
            IN [typing EXCEPT !.assistants[i].isProcessing = TRUE,
                              !.assistants[i].processing = Append(@, message)]

\* sendMessage of instance i, up to its await
SendMessage(page, i) ==
    LET message == Trim(page.chatInput)
    IN IF message = <<>> \/ page.assistants[i].isProcessing
       THEN page
       ELSE LET cleared == [page EXCEPT !.chatInput = <<>>]
                typing == ShowTypingIndicator(AddMessage(cleared, i, message, "user"))
            IN [typing EXCEPT !.assistants[i].isProcessing = TRUE,
                              !.assistants[i].processing = Append(@, message)]

\* the listeners setupChatInterface has put on #send-message and #chat-input,
\* one per instance, run in the order they were added
RECURSIVE SendListeners(_, _)
SendListeners(page, i) ==
    IF i > Len(page.assistants)
    THEN page
    ELSE SendListeners(SendMessage(page, i), i + 1)

\* the listeners setupSuggestions has put on a suggestion button: each sets
\* the input to the button's query and sends
RECURSIVE SuggestionListeners(_, _, _)
SuggestionListeners(page, query, i) ==
    IF i > Len(page.assistants)
    THEN page
    ELSE SuggestionListeners(SendMessage([page EXCEPT !.chatInput = query], i),
                             query, i + 1)

\* every instance has room for one more exchange
RoomInHistory ==
    \A i \in DOMAIN assistants :
        Len(assistants[i].conversationHistory) + 2 <= MaxHistory

\* the user edits #chat-input
TypeMessage(text) ==
    /\ text # chatInput
    /\ chatInput' = text
    /\ UNCHANGED <<assistants, chatMessages>>

\* a click on #send-message, or Enter in #chat-input
ClickSend ==
    /\ RoomInHistory
    /\ ChatPageBecomes(SendListeners(ChatPage, 1))

\* a click on a suggestion button whose data-query is `query`
ClickSuggestion(query) ==
    /\ RoomInHistory
    /\ query # <<>>
    /\ ChatPageBecomes(SuggestionListeners(ChatPage, query, 1))

\* the timeout of a processMessage of instance i runs: the response is added,
\* or, when the processing throws, the apology; then `finally`
ReplyArrives(i, k, failed) ==
    /\ i \in DOMAIN assistants
    /\ k \in DOMAIN assistants[i].processing
    /\ LET message == assistants[i].processing[k]
           hidden == HideTypingIndicator(ChatPage)
           reply == IF failed THEN <<"apology">> ELSE <<ProcessMessage(message)>>
           added == AddMessage(hidden, i, reply, "ai")
       IN ChatPageBecomes(
            [added EXCEPT !.assistants[i].isProcessing = FALSE,
                          !.assistants[i].processing =
                                Without(assistants[i].processing, k)])

\* the modules of the other views, constructed; on a page without
\* #training-logs the timeouts of initTrainingLogs change nothing and are
\* left out
ModulesInit ==
    /\ SpeciesMapInit(TRUE)
    /\ EDNAAnalysisInit
    /\ OtolithClassifierInit(TRUE)
    /\ lastAlert = "none"
    /\ ChatPageInit(TRUE, 1)
    /\ initialLogs = <<>>

----------------------------------------------------------------------------
(* BluePulseApp: construction and the initial load *)

Sections == {"dashboard", "oceanographic", "ml-training"}

\* no module instance has been replaced yet
NoDetached == [live |-> 0, running |-> 0, paused |-> 0, idle |-> 0]

\* updateKPIsWithMockData: the four values of mockData, in the order of
\* the elements of updateKPIsWithData
MockData ==
    <<JsNumber(5247), JsNumber(8), JsNumber(15), JsNumber(1847)>>

\* what animateValue(element, 0, end, 2000) leaves in the element once the
\* animation has run: Math.floor(0 + (end - 0) * 1), NaN for a missing field
\* (the model holds integers, on which Math.floor is the identity)
AnimatedValue(end) == IF end.nan THEN NaN ELSE JsNumber(end.n)

\* updateKPIsWithData: the four elements in the order total-species,
\* ai-models, monitoring-stations, predictions-today
KPIsWithData(data) == [k \in 1..4 |-> AnimatedValue(data[k])]

\* the bodies response.json() can resolve with: an object with the four
\* fields, one that repeats the mock values, one with fields missing
\* (undefined, NaN once subtracted from), and JSON null
ResponseBodies ==
    { [null |-> FALSE,
       fields |-> <<JsNumber(5300), JsNumber(9), JsNumber(16), JsNumber(0)>>],
      [null |-> FALSE, fields |-> MockData],
      [null |-> FALSE, fields |-> <<JsNumber(12), NaN, NaN, NaN>>],
      [null |-> TRUE, fields |-> <<>>] }

NoBody == [null |-> TRUE, fields |-> <<>>]

\* the constructor: currentSection 'dashboard', then init() up to the first
\* await of loadInitialData (overlay shown, request in flight)
BluePulseAppInit ==
    /\ currentSection = "dashboard"
    /\ mlTrainingBuilt = FALSE
    /\ detached = NoDetached
    /\ loadPhase = "fetching"
    /\ loadingShown = TRUE
    /\ kpis = <<>>
    /\ response = [outcome |-> "pending", body |-> NoBody]

\* the page once the initial load has ended without a backend and the user
\* has opened `section` for the first time
AppAt(section) ==
    /\ currentSection = section
    /\ mlTrainingBuilt = (section = "ml-training")
    /\ detached = NoDetached
    /\ loadPhase = "done"
    /\ loadingShown = FALSE
    /\ kpis = KPIsWithData(MockData)
    /\ response = [outcome |-> "rejected", body |-> NoBody]

\* the end of loadInitialData after updateDashboardKPIs returned: hideLoading
LoadEnds(values, outcome, body) ==
    /\ kpis' = values
    /\ response' = [outcome |-> outcome, body |-> body]
    /\ loadingShown' = FALSE
    /\ loadPhase' = "done"

\* updateDashboardKPIs with no fallback: a request that fails or is not ok
\* leaves the KPI elements untouched
FetchSettlesWithoutFallback(outcome) ==
    /\ loadPhase = "fetching"
    /\ outcome \in {"rejected", "notOk", "ok"}
    /\ IF outcome = "ok"
       THEN /\ loadPhase' = "parsing"
            /\ response' = [outcome |-> "ok", body |-> NoBody]
            /\ UNCHANGED <<kpis, loadingShown>>
       ELSE LoadEnds(kpis, outcome, NoBody)
    /\ UNCHANGED <<currentSection, mlTrainingBuilt, detached>>

\* `await fetch(...)` settles: rejected (catch, mock data), resolved with a
\* response that is not ok (mock data, return), or resolved ok (on to
\* `await response.json()`)
FetchSettles(outcome) ==
    /\ loadPhase = "fetching"
    /\ outcome \in {"rejected", "notOk", "ok"}
    /\ IF outcome = "ok"
       THEN /\ loadPhase' = "parsing"
            /\ response' = [outcome |-> "ok", body |-> NoBody]
            /\ UNCHANGED <<kpis, loadingShown>>
       ELSE LoadEnds(KPIsWithData(MockData), outcome, NoBody)
    /\ UNCHANGED <<currentSection, mlTrainingBuilt, detached>>

\* `await response.json()` rejects: catch, mock data
BodyUnparsable ==
    /\ loadPhase = "parsing"
    /\ LoadEnds(KPIsWithData(MockData), "unparsable", NoBody)
    /\ UNCHANGED <<currentSection, mlTrainingBuilt, detached>>

\* `await response.json()` resolves with `body`: updateKPIsWithData(body);
\* for null, data.totalSpecies throws a TypeError, caught with mock data
BodyParsed(body) ==
    /\ loadPhase = "parsing"
    /\ LoadEnds(IF body.null THEN KPIsWithData(MockData)
                ELSE KPIsWithData(body.fields), "parsed", body)
    /\ UNCHANGED <<currentSection, mlTrainingBuilt, detached>>

----------------------------------------------------------------------------
(* The training scheduler as the page wires it *)

\* The ml-training section is shown: no OceanographicModule has been built.
Init ==
    /\ rngSeed \in Seeds
    /\ unitCall = NoCall
    /\ ModulesInit
    /\ MLTrainingInit
    /\ OceanographicNotBuilt
    /\ AppAt("ml-training")

Next ==
    \/ \E m \in ModelCards : SelectModel(m) /\ UNCHANGED <<oceanVars, appVars, moduleVars, callVars, rngSeed>>
    \/ \E input \in EpochInputs : SetTotalEpochs(input) /\ UNCHANGED <<oceanVars, appVars, moduleVars, callVars, rngSeed>>
    \/ StartTraining /\ UNCHANGED <<oceanVars, appVars, moduleVars, callVars, rngSeed>>
    \/ PauseTraining /\ UNCHANGED <<oceanVars, appVars, moduleVars, callVars, rngSeed>>
    \/ StopTraining /\ UNCHANGED <<oceanVars, appVars, moduleVars, callVars, rngSeed>>
    \/ \E t \in timers : TimerFires(t) /\ UNCHANGED <<oceanVars, appVars, moduleVars, callVars, rngSeed>>

Spec == Init /\ [][Next]_vars

----------------------------------------------------------------------------
(* The training scheduler driven through its methods: besides the page's    *)
(* handlers and timer, a caller invokes simulateTrainingEpoch itself, one   *)
(* tick per call.                                                           *)

InvokeSimulateTrainingEpoch ==
    /\ ticks < MaxTicks
    /\ SimulateTrainingEpoch

NextTick ==
    \/ Next
    \/ InvokeSimulateTrainingEpoch /\ UNCHANGED <<oceanVars, appVars, moduleVars, callVars, rngSeed>>

SpecTick == Init /\ [][NextTick]_vars

----------------------------------------------------------------------------
(* The oceanographic section as the page wires it: one module, its three    *)
(* selects and its live timer.                                              *)

InitOcean ==
    /\ rngSeed \in Seeds
    /\ unitCall = NoCall
    /\ ModulesInit
    /\ MLTrainingInit
    /\ OceanographicInit
    /\ AppAt("oceanographic")

NextOcean ==
    \/ \E value \in ParameterChoices : ParameterChange(value) /\ UNCHANGED <<trainVars, appVars, moduleVars, callVars, rngSeed>>
    \/ \E value \in StationChoices : StationChange(value) /\ UNCHANGED <<trainVars, appVars, moduleVars, callVars, rngSeed>>
    \/ \E value \in RangeChoices : RangeChange(value) /\ UNCHANGED <<trainVars, appVars, moduleVars, callVars, rngSeed>>
    \/ LiveTimerFires /\ UNCHANGED <<trainVars, appVars, moduleVars, callVars, rngSeed>>

SpecOcean == InitOcean /\ [][NextOcean]_vars

(* The module driven through its methods: startRealTimeUpdates is called    *)
(* again on a module whose updates are started.                             *)

NextOceanCalls ==
    \/ NextOcean
    \/ StartRealTimeUpdates /\ UNCHANGED <<trainVars, appVars, moduleVars, callVars, rngSeed>>

SpecOceanCalls == InitOcean /\ [][NextOceanCalls]_vars

(* The module under a system clock that is not monotonic: `new Date()`     *)
(* reads the wall clock, which the user or a time synchronisation can set  *)
(* back between two ticks.                                                  *)

\* The amounts the clock is set back by: two intervals, and two hours.
SetBackChoices == {2 * LiveInterval, 2 * SecondsPerHour}

ClockSetBack(seconds) ==
    /\ clockSetBacks < MaxSetBacks
    /\ appended - HoursOf(forecastRange) < MaxSharedTicks
    /\ now' = now - seconds
    /\ clockSetBacks' = clockSetBacks + 1
    /\ UNCHANGED <<currentParameter, currentStation, forecastRange, historicalData,
                   oceanCharts, cardReading, liveTimers, liveFired, appended,
                   intervalAppends>>

NextOceanWallClock ==
    \/ NextOcean
    \/ \E seconds \in SetBackChoices : ClockSetBack(seconds) /\ UNCHANGED <<trainVars, appVars, moduleVars, callVars, rngSeed>>

SpecOceanWallClock == InitOcean /\ [][NextOceanWallClock]_vars

(* The species map view *)

InitMap ==
    /\ rngSeed \in Seeds
    /\ unitCall = NoCall
    /\ \E present \in BOOLEAN : SpeciesMapInit(present)
    /\ EDNAAnalysisInit
    /\ OtolithClassifierInit(TRUE)
    /\ lastAlert = "none"
    /\ ChatPageInit(TRUE, 1)
    /\ initialLogs = <<>>
    /\ MLTrainingInit
    /\ OceanographicNotBuilt
    /\ AppAt("species-map")

NextMap ==
    \/ \E value \in SpeciesFilterChoices : SpeciesFilterChange(value) /\ UNCHANGED <<trainVars, oceanVars, appVars, mapFrame, callVars, rngSeed>>
    \/ \E value \in ConfidenceFilterChoices : ConfidenceFilterChange(value) /\ UNCHANGED <<trainVars, oceanVars, appVars, mapFrame, callVars, rngSeed>>
    \/ ToggleHeatmap /\ UNCHANGED <<trainVars, oceanVars, appVars, mapFrame, callVars, rngSeed>>
    \/ RefreshData /\ UNCHANGED <<trainVars, oceanVars, appVars, mapFrame, callVars, rngSeed>>
    \/ RefreshTimeout /\ UNCHANGED <<trainVars, oceanVars, appVars, mapFrame, callVars, rngSeed>>

SpecMap == InitMap /\ [][NextMap]_vars

(* The training view on a page with #training-logs: the timeouts of       *)
(* initTrainingLogs and the three buttons.                                *)

InitLogs ==
    /\ rngSeed = 0
    /\ unitCall = NoCall
    /\ SpeciesMapInit(TRUE)
    /\ EDNAAnalysisInit
    /\ OtolithClassifierInit(TRUE)
    /\ lastAlert = "none"
    /\ ChatPageInit(TRUE, 1)
    /\ initialLogs = InitialLogs
    /\ currentModel = "otolith"
    /\ isTraining = FALSE
    /\ trainingInterval = Null
    /\ currentEpoch = 0
    /\ totalEpochs = JsNumber(100)
    /\ modelData = InitialModelData
    /\ trainCharts = ChartsFor("otolith", InitialModelData)
    /\ trainingLogs = [present |-> TRUE, entries |-> <<>>, calls |-> <<>>]
    /\ timers = {}
    /\ lastCall = "constructor"
    /\ startAfter = "none"
    /\ completions = 0
    /\ epochsStable = TRUE
    /\ ticks = 0
    /\ OceanographicNotBuilt
    /\ AppAt("ml-training")

\* what a step of the training view leaves alone
logFrame == <<oceanVars, appVars, mapVars, ednaVars, otolithVars, alertVars,
              chatVars, callVars, rngSeed>>

NextLogs ==
    \/ InitialLogTimeout /\ UNCHANGED logFrame
    \/ /\ Len(trainingLogs.calls) < MaxVariedCalls
       /\ StartTraining /\ UNCHANGED <<logFrame, logVars>>
    \/ /\ Len(trainingLogs.calls) < MaxVariedCalls
       /\ PauseTraining /\ UNCHANGED <<logFrame, logVars>>
    \/ /\ Len(trainingLogs.calls) < MaxLogged
       /\ initialLogs # <<>> => Len(trainingLogs.calls) < MaxVariedCalls
       /\ StopTraining /\ UNCHANGED <<logFrame, logVars>>

SpecLogs == InitLogs /\ [][NextLogs]_vars

(* The assistant's view, opened up to MaxAssistants times *)

\* Math.random only sets the delay of a reply, which may come at any time
InitChat ==
    /\ rngSeed = 0
    /\ unitCall = NoCall
    /\ SpeciesMapInit(TRUE)
    /\ EDNAAnalysisInit
    /\ OtolithClassifierInit(TRUE)
    /\ lastAlert = "none"
    /\ \E present \in BOOLEAN, children \in 0 .. 1 : ChatPageInit(present, children)
    /\ initialLogs = <<>>
    /\ MLTrainingInit
    /\ OceanographicNotBuilt
    /\ AppAt("dashboard")

\* what a step of the assistant's view leaves alone
chatFrame == <<trainVars, oceanVars, appVars, mapVars, ednaVars, otolithVars,
               alertVars, logVars, callVars, rngSeed>>

NextChat ==
    \/ NewAIAssistant /\ UNCHANGED chatFrame
    \/ \E text \in ChatInputs : TypeMessage(text) /\ UNCHANGED chatFrame
    \/ ClickSend /\ UNCHANGED chatFrame
    \/ \E query \in ChatInputs : ClickSuggestion(query) /\ UNCHANGED chatFrame
    \/ \E i \in DOMAIN assistants :
         \E k \in DOMAIN assistants[i].processing, failed \in BOOLEAN :
            ReplyArrives(i, k, failed) /\ UNCHANGED chatFrame

SpecChat == InitChat /\ [][NextChat]_vars

(* The operations that show the loading overlay: the initial load of the   *)
(* page, an eDNA analysis, an otolith classification, on a page whose eDNA *)
(* and otolith views have been opened.                                     *)

\* what a step of the eDNA view, or of the otolith view, leaves alone
appFrame == <<currentSection, mlTrainingBuilt, detached, loadPhase, kpis, response>>

InitAsync ==
    /\ rngSeed \in Seeds
    /\ unitCall = NoCall
    /\ SpeciesMapInit(TRUE)
    /\ EDNAAnalysisInit
    /\ \E disabled \in BOOLEAN : OtolithClassifierInit(disabled)
    /\ lastAlert = "none"
    /\ ChatPageInit(TRUE, 1)
    /\ initialLogs = <<>>
    /\ MLTrainingInit
    /\ OceanographicNotBuilt
    /\ BluePulseAppInit

NextAsync ==
    \/ \E outcome \in {"rejected", "notOk", "ok"} :
            FetchSettles(outcome) /\ UNCHANGED <<trainVars, oceanVars, moduleVars, callVars, rngSeed>>
    \/ BodyUnparsable /\ UNCHANGED <<trainVars, oceanVars, moduleVars, callVars, rngSeed>>
    \/ \E body \in ResponseBodies :
            BodyParsed(body) /\ UNCHANGED <<trainVars, oceanVars, moduleVars, callVars, rngSeed>>
    \/ StartAnalysis
            /\ UNCHANGED <<trainVars, oceanVars, appFrame, mapVars, chatVars, logVars, otolithVars, alertVars, callVars, rngSeed>>
    \/ \E k \in 1 .. Len(analysisStepsLeft), failed \in BOOLEAN :
            AnalysisTimeout(k, failed)
            /\ UNCHANGED <<trainVars, oceanVars, appFrame, mapVars, chatVars, logVars, otolithVars, callVars, rngSeed>>
    \/ \E file \in FileChoices :
            HandleImageUpload(file)
            /\ UNCHANGED <<trainVars, oceanVars, appVars, mapVars, chatVars, logVars, ednaVars, callVars, rngSeed>>
    \/ \E file \in readerPending :
            ReaderLoads(file)
            /\ UNCHANGED <<trainVars, oceanVars, appVars, mapVars, chatVars, logVars, ednaVars, callVars, rngSeed>>
    \/ LoadSampleImage
            /\ UNCHANGED <<trainVars, oceanVars, appVars, mapVars, chatVars, logVars, ednaVars, callVars, rngSeed>>
    \/ ClassifyImage
            /\ UNCHANGED <<trainVars, oceanVars, appFrame, mapVars, chatVars, logVars, ednaVars, callVars, rngSeed>>
    \/ \E species \in SampleSpecies, failed \in BOOLEAN :
            ClassificationTimeout(species, failed)
            /\ UNCHANGED <<currentImage, previewImage, readerPending>>
            /\ UNCHANGED <<trainVars, oceanVars, appFrame, mapVars, chatVars, logVars, ednaVars, callVars, rngSeed>>

SpecAsync == InitAsync /\ [][NextAsync]_vars

(* The module driven through its methods: getParameterUnit is called with   *)
(* any string, between changes of the selects.                              *)

\* the arguments explored: the five configured keys, two keys that name
\* nothing, two names every object inherits
UnitKeys == ParameterKeys \cup {"turbidity", "", "constructor", "toString"}

InvokeGetParameterUnit(parameter) ==
    /\ unitCall' = [called |-> TRUE, parameter |-> parameter,
                    returned |-> GetParameterUnit(parameter)]
    /\ UNCHANGED <<trainVars, oceanVars, appVars, moduleVars, rngSeed>>

NextUnits ==
    \/ \E value \in ParameterChoices : ParameterChange(value) /\ UNCHANGED <<trainVars, appVars, moduleVars, callVars, rngSeed>>
    \/ \E value \in RangeChoices : RangeChange(value) /\ UNCHANGED <<trainVars, appVars, moduleVars, callVars, rngSeed>>
    \/ \E parameter \in UnitKeys : InvokeGetParameterUnit(parameter)

SpecUnits == InitOcean /\ [][NextUnits]_vars

(* createForecastChart and updateParameterCards as functions of the buffer: *)
(* the two methods applied to a temperature buffer of any length up to      *)
(* MaxSnapshot, whose latest sample and whose sample 24 places before it    *)
(* take the values that matter to the change and the trend.                 *)

\* Values, in millionths, of the sample 24 places before the latest: 28.5, and 0.
BackValues == {28500000, 0}

\* Values of the latest sample: 28.5 and 0.05, 0.1 and 0.15 to either side.
LatestValues == {28350000, 28400000, 28450000, 28500000, 28550000, 28600000, 28650000}

\* A buffer of n hourly samples ending an hour ago.
Snapshot(n, back, latest) ==
    [k \in 1 .. n |->
        LET value == IF k = n THEN latest
                     ELSE IF k = n - 24 THEN back
                     ELSE 20000000 + k * 10000
        IN  Sample(0 - (n - k + 1) * SecondsPerHour, value, value + 5000)]

InitSnapshot ==
    /\ rngSeed \in Seeds
    /\ unitCall = NoCall
    /\ ModulesInit
    /\ MLTrainingInit
    /\ AppAt("oceanographic")
    /\ currentParameter = "temperature"
    /\ currentStation = "all"
    /\ forecastRange = "7d"
    /\ \E n \in 0 .. MaxSnapshot, back \in BackValues, latest \in LatestValues :
           historicalData = [p \in ParameterKeys |-> Snapshot(n, back, latest)]
    /\ oceanCharts = CreateCharts([p \in ParameterKeys |-> <<>>], "temperature")
    /\ cardReading = [read |-> FALSE]
    /\ liveTimers = 0
    /\ liveFired = 0
    /\ now = 0
    /\ appended = 0
    /\ intervalAppends = 0
    /\ clockSetBacks = 0

InvokeCreateForecastChart ==
    /\ oceanCharts' = [oceanCharts EXCEPT
                          !.forecast = ForecastChart(historicalData, currentParameter)]
    /\ UNCHANGED <<currentParameter, currentStation, forecastRange, historicalData,
                   cardReading, liveTimers, liveFired, now, appended, intervalAppends,
                   clockSetBacks>>

InvokeUpdateParameterCards ==
    /\ cardReading' = ParameterReading(historicalData, currentParameter)
    /\ UNCHANGED <<currentParameter, currentStation, forecastRange, historicalData,
                   oceanCharts, liveTimers, liveFired, now, appended, intervalAppends,
                   clockSetBacks>>

NextSnapshot ==
    \/ InvokeCreateForecastChart /\ UNCHANGED <<trainVars, appVars, moduleVars, callVars, rngSeed>>
    \/ InvokeUpdateParameterCards /\ UNCHANGED <<trainVars, appVars, moduleVars, callVars, rngSeed>>

SpecSnapshot == InitSnapshot /\ [][NextSnapshot]_vars

----------------------------------------------------------------------------
(* Properties of the training scheduler *)

\* A step that runs simulateTrainingEpoch once.
TickStep == ticks' = ticks + 1

\* The states of the scheduler, read off the fields.
Running == isTraining /\ trainingInterval # Null

Paused == isTraining /\ trainingInterval = Null

\* C3: an MLTraining instance has at most one active interval timer, the one
\* its handle names; startTraining while already started changes neither the
\* timers nor currentEpoch.
C3_SingleTrainingTimer ==
    /\ [](/\ Cardinality(timers) <= 1
          /\ timers = IF trainingInterval = Null THEN {} ELSE {trainingInterval})
    /\ [][(isTraining /\ lastCall' = "startTraining")
            => UNCHANGED <<timers, trainingInterval, currentEpoch, isTraining>>]_vars

\* startTraining was called on a running scheduler that had already ticked
C3_Witness ==
    /\ lastCall = "startTraining"
    /\ startAfter = "simulateTrainingEpoch"
    /\ Running
    /\ currentEpoch >= 1

\* C5 (as claimed): startTraining called on a paused scheduler makes it
\* Running again, with currentEpoch as it was before the pause.
C5_PauseThenStartResumes ==
    [][(Paused /\ lastCall = "pauseTraining" /\ lastCall' = "startTraining")
        => (Running' /\ currentEpoch' = currentEpoch)]_vars

\* C6: the first tick after a stopTraining followed by a startTraining makes
\* currentEpoch 1.
C6_StopThenStartFromZero ==
    [][(lastCall = "startTraining" /\ startAfter = "stopTraining" /\ TickStep)
        => currentEpoch' = 1]_vars

\* the first tick of a run restarted after a stop that followed earlier ticks
C6_Witness ==
    /\ lastCall \in {"simulateTrainingEpoch", "completeTraining"}
    /\ startAfter = "stopTraining"
    /\ currentEpoch = 1
    /\ ticks >= 3

\* The tick on which a run with target n completes.
CompletionTick(n) == IF n >= 1 THEN n ELSE 1

\* C7 (as amended): in a run whose totalEpochs is a number N that the run
\* does not change, completeTraining is invoked once, on tick N when N >= 1
\* and on the first tick when N <= 0, and on no earlier tick; it leaves
\* isTraining false and the timer cleared.
C7_CompletesOnTargetTick ==
    /\ [](completions <= 1)
    /\ [][(epochsStable /\ ~totalEpochs.nan /\ TickStep)
            => IF currentEpoch' = CompletionTick(totalEpochs.n)
               THEN /\ completions = 0 /\ completions' = 1
                    /\ ~isTraining' /\ trainingInterval' = Null /\ timers' = {}
               ELSE /\ currentEpoch' < CompletionTick(totalEpochs.n)
                    /\ completions' = 0 /\ Running']_vars

\* a run with target 2 has just completed, on its second tick
C7_Witness ==
    /\ lastCall = "completeTraining"
    /\ epochsStable
    /\ totalEpochs = JsNumber(2)
    /\ currentEpoch = 2
    /\ completions = 1
    /\ ~isTraining /\ timers = {}

\* C7 (as claimed): completeTraining is invoked once, on tick N, for every N.
C7_CompletesOnNthTick ==
    [][(epochsStable /\ ~totalEpochs.nan /\ TickStep)
        => IF currentEpoch' = totalEpochs.n
           THEN /\ completions = 0 /\ completions' = 1
                /\ ~isTraining' /\ trainingInterval' = Null /\ timers' = {}
           ELSE /\ currentEpoch' < totalEpochs.n
                /\ completions' = 0 /\ Running']_vars

\* C8 (as claimed): once a run has completed, a further invocation of
\* simulateTrainingEpoch does not invoke completeTraining again and changes
\* neither isTraining nor the timer.
C8_StaysStoppedAfterCompletion ==
    [][(completions >= 1 /\ ~isTraining /\ TickStep)
        => /\ completions' = completions
           /\ ~isTraining'
           /\ timers' = timers /\ trainingInterval' = trainingInterval]_vars

\* C9: after pauseTraining or stopTraining no simulateTrainingEpoch runs
\* (currentEpoch and the accuracy/loss arrays keep their values) until
\* startTraining is called.
C9_NoTickWhileHalted ==
    [][(lastCall \in {"pauseTraining", "stopTraining"})
        => \/ currentEpoch' = currentEpoch /\ modelData' = modelData
           \/ lastCall' = "startTraining"]_vars

\* paused in the middle of a run
C9_Witness ==
    /\ lastCall = "pauseTraining"
    /\ Paused
    /\ currentEpoch >= 1
    /\ timers = {}

C11_HaltWhenIdleIsNoOp ==
    [][(~isTraining /\ (PauseTraining \/ StopTraining))
        => UNCHANGED <<isTraining, currentEpoch, trainingInterval, timers, modelData>>]_vars

\* stopTraining was called on a scheduler whose run had completed
C11_Witness ==
    /\ lastCall = "stopTraining"
    /\ completions = 1
    /\ ~isTraining
    /\ currentEpoch >= 1

----------------------------------------------------------------------------
(* Properties of the live buffers *)

\* C1: no parameter buffer ever holds more than the retention cap of 1000
\* samples.
C1_BufferWithinCap ==
    \A p \in ParameterKeys : Len(historicalData[p]) <= RetentionCap

\* more samples have been appended than the cap, and a buffer is full
C1_Witness ==
    /\ appended > RetentionCap
    /\ \E p \in ParameterKeys : Len(historicalData[p]) = RetentionCap

\* C2: every buffer holds the most recent min(appended, 1000) of the samples
\* appended to it, in the order of their insertion: once 1000 + k samples
\* have been appended its length is 1000 and the k oldest are gone.  The
\* samples appended are the `hours` samples of the bulk generation, then one
\* live sample per interval, which its timestamp identifies.
C2_FifoEviction ==
    LET hours    == HoursOf(forecastRange)
        evicted  == Max(appended - RetentionCap, 0)
        bulkLeft == Max(hours - evicted, 0)
    IN  \A p \in ParameterKeys :
            LET d == historicalData[p]
            IN  /\ Len(d) = Min(appended, RetentionCap)
                /\ SubSeq(d, 1, bulkLeft)
                       = SubSeq(LoadHistoricalData(forecastRange)[p], evicted + 1, hours)
                /\ \A j \in bulkLeft + 1 .. Len(d) :
                       Timestamp(d[j]) = (j + evicted - hours) * LiveInterval

\* two appends have overflowed the cap: the buffer starts at the third sample
C2_Witness ==
    /\ appended = RetentionCap + 2
    /\ Len(historicalData["salinity"]) = RetentionCap
    /\ historicalData["salinity"][1] = LoadHistoricalData(forecastRange)["salinity"][3]

\* C4 (as claimed): a module has one live tick stream, however often
\* startRealTimeUpdates is called, and a buffer gets one append per 30 s
\* interval.
C4_OneLiveTickStream ==
    /\ liveTimers <= 1
    /\ intervalAppends <= 1

\* C12: in the state loadHistoricalData leaves, at construction and after
\* every change of a select (no time has passed since: the clock reads 0),
\* the buffers are those of the five parameters and each has min(h, 1000)
\* samples, h the hours of the forecast range.
C12_LoadedLength ==
    now = 0 =>
        /\ DOMAIN historicalData = ParameterKeys
        /\ \A p \in ParameterKeys :
               Len(historicalData[p]) = Min(HoursOf(forecastRange), RetentionCap)

\* the 30 days were loaded after a live tick had appended to the buffers
C12_Witness ==
    /\ now = 0
    /\ intervalAppends = 1
    /\ forecastRange = "30d"
    /\ Len(historicalData["oxygen"]) = 720

\* `data[data.length - 1]`
LastOf(d) == d[Len(d)]

\* C13: a live tick puts exactly one new sample at the tail of every buffer
\* (the samples before it are those the buffer held, less the oldest when the
\* buffer was full), the new samples all carry the instant of the tick, and
\* updateParameterCards reads the buffers as the tick leaves them.
C13_TickAppendsOneEverywhere ==
    [][LiveTimerFires =>
        /\ \A p \in ParameterKeys :
               /\ Timestamp(LastOf(historicalData'[p])) = now'
               /\ SubSeq(historicalData'[p], 1, Len(historicalData'[p]) - 1) =
                      IF Len(historicalData[p]) < RetentionCap
                      THEN historicalData[p] ELSE Tail(historicalData[p])
        /\ currentParameter \in ParameterKeys =>
               /\ cardReading'.read
               /\ cardReading'.latest = LastOf(historicalData'[currentParameter])
               /\ Timestamp(cardReading'.latest) = now'
        /\ currentParameter \notin ParameterKeys => ~cardReading'.read]_vars

\* the second tick after a load: the card shows the sample of that tick
C13_Witness ==
    /\ appended = HoursOf(forecastRange) + 2
    /\ now = 2 * LiveInterval
    /\ cardReading.read
    /\ Timestamp(cardReading.latest) = 2 * LiveInterval
    /\ \A p \in ParameterKeys : Timestamp(LastOf(historicalData[p])) = 2 * LiveInterval

\* C14: in every buffer the samples stand in the order of their timestamps,
\* none earlier than the one before it.
C14_Chronological ==
    \A p \in ParameterKeys :
        \A j \in 1 .. Len(historicalData[p]) - 1 :
            Timestamp(historicalData[p][j]) <= Timestamp(historicalData[p][j + 1])

\* a buffer holding generated samples and, after them, two live samples of
\* one instant (two timers fired in the same interval)
C14_Witness ==
    LET d == historicalData["ph"]
    IN  /\ liveTimers = 2
        /\ appended >= HoursOf(forecastRange) + 2
        /\ Timestamp(d[1]) < 0
        /\ Timestamp(d[Len(d)]) > 0
        /\ Timestamp(d[Len(d) - 1]) = Timestamp(d[Len(d)])

\* C15 (as claimed): a live append whose timestamp is earlier than the last
\* timestamp the buffer holds is not stored: the buffer stays as it is.
C15_OutOfOrderRejected ==
    [][\A p \in ParameterKeys :
          (LiveTimerFires /\ now' < Timestamp(LastOf(historicalData[p])))
              => historicalData'[p] = historicalData[p]]_vars

----------------------------------------------------------------------------
(* Properties of the forecast partition and of the parameter card *)

\* C16: for a buffer of n >= 2 samples and split = floor(n * 0.7), the
\* historical dataset is drawn from samples 1 .. split and the forecast
\* dataset from samples split .. n (counting from 1): the sample number split
\* is in both, and every sample is in one of them.
C16_PartitionOverlapsByOne ==
    LET d     == historicalData[currentParameter]
        n     == Len(d)
        split == SplitPoint(n)
        chart == oceanCharts.forecast
    IN  (n >= 2 /\ chart.labels # <<>>) =>
            /\ split >= 1
            /\ Len(chart.historical) = split
            /\ Len(chart.forecast) = n - split + 1
            /\ \A k \in 1 .. split : chart.historical[k] = Value(d[k])
            /\ \A k \in 1 .. n - split + 1 : chart.forecast[k] = Predicted(d[split - 1 + k])

\* the forecast chart of a buffer of two samples: the first sample is the
\* historical part and both are the forecast part
C16_Witness ==
    LET d     == historicalData[currentParameter]
        chart == oceanCharts.forecast
    IN  /\ Len(d) = 2
        /\ chart.labels # <<>>
        /\ chart.historical = <<Value(d[1])>>
        /\ chart.forecast = <<Predicted(d[1]), Predicted(d[2])>>

C19_TrendThreeWay ==
    (cardReading.read /\ currentParameter = "temperature") =>
        cardReading.trend =
            IF cardReading.change > 100000 THEN "positive"
            ELSE IF cardReading.change < 0 - 100000 THEN "negative"
            ELSE "stable"

\* a change of exactly 0.1 over the day read as stable
C19_Witness ==
    /\ cardReading.read
    /\ currentParameter = "temperature"
    /\ Len(historicalData["temperature"]) >= 25
    /\ cardReading.change = 100000
    /\ cardReading.trend = "stable"

----------------------------------------------------------------------------
(* Properties of the data handed to the charts *)

\* The contents of the array a training chart was given, in the heap `data`.
ChartArray(chart, kind, data) == data[chart.data][kind]

\* C20 (as claimed): no step changes the contents of a sequence a chart has
\* been given: not those of the arrays the loss and accuracy charts hold, nor
\* (on a live tick) those of the datasets of the oceanographic charts.
C20_ChartsHoldSnapshots ==
    [][/\ \A kind \in {"loss", "accuracy"} :
              ChartArray(trainCharts[kind], kind, modelData')
                  = ChartArray(trainCharts[kind], kind, modelData)
       /\ LiveTimerFires => oceanCharts' = oceanCharts]_vars

----------------------------------------------------------------------------
(* Properties of the generated values *)

\* C21 (as claimed): every sample of the chlorophyll buffer, generated in
\* bulk or appended by a live tick, has a value and a predicted value of 0.1
\* or more.
C21_ChlorophyllFloor ==
    \A j \in 1 .. Len(historicalData["chlorophyll"]) :
        /\ Value(historicalData["chlorophyll"][j]) >= 100000
        /\ Predicted(historicalData["chlorophyll"][j]) >= 100000

----------------------------------------------------------------------------
(* BluePulseApp: navigation between the views *)

\* module constructions explored beyond the first of each view
MaxInstances == 2

Detached == detached.live + detached.running + detached.paused + detached.idle

\* `new MLTraining()`: the fields of the fresh instance
MLTrainingConstructed ==
    /\ currentModel' = "otolith"
    /\ isTraining' = FALSE
    /\ trainingInterval' = Null
    /\ currentEpoch' = 0
    /\ totalEpochs' = JsNumber(100)
    /\ modelData' = InitialModelData
    /\ trainCharts' = ChartsFor("otolith", InitialModelData)
    /\ trainingLogs' = NoTrainingLogs
    /\ timers' = {}
    /\ lastCall' = "constructor"
    /\ startAfter' = "none"
    /\ completions' = 0
    /\ epochsStable' = TRUE
    /\ UNCHANGED ticks

\* `new OceanographicModule()`: the fields of the fresh instance, its live
\* timer included
OceanographicConstructed ==
    /\ currentParameter' = "temperature"
    /\ currentStation' = "all"
    /\ forecastRange' = "7d"
    /\ historicalData' = LoadHistoricalData("7d")
    /\ oceanCharts' = ChartsOfHistory["7d"][rngSeed]["temperature"]
    /\ cardReading' = ParameterReading(LoadHistoricalData("7d"), "temperature")
    /\ liveTimers' = 1
    /\ liveFired' = 1
    /\ now' = 0
    /\ appended' = HoursOf("7d")
    /\ intervalAppends' = 0
    /\ UNCHANGED clockSetBacks

\* the MLTraining instance window.mlTrainingModule named, once replaced: it
\* keeps its interval and its listeners on the three buttons
MLTrainingDetached ==
    IF ~mlTrainingBuilt THEN detached
    ELSE IF Running THEN [detached EXCEPT !.running = @ + 1]
    ELSE IF Paused THEN [detached EXCEPT !.paused = @ + 1]
    ELSE [detached EXCEPT !.idle = @ + 1]

\* initializeSection('ml-training'). Nothing is done to the instance in
\* place. `new Chart` on a canvas that holds a chart throws in some versions
\* of the chart library and not in others (the library is not part of the
\* repository): when it throws, init() ends in createTrainingCharts, after
\* setupTrainingControls has attached the listeners, and
\* window.mlTrainingModule keeps the instance in place.
InitializeMLTraining(chartThrows) ==
    IF chartThrows
    THEN /\ mlTrainingBuilt
         /\ detached' = [detached EXCEPT !.idle = @ + 1]
         /\ UNCHANGED <<trainVars, mlTrainingBuilt>>
    ELSE /\ detached' = MLTrainingDetached
         /\ mlTrainingBuilt' = TRUE
         /\ MLTrainingConstructed

\* initializeSection('oceanographic'): when `new Chart` throws, init() ends in
\* createCharts, before startRealTimeUpdates
InitializeOceanographic(chartThrows) ==
    IF chartThrows
    THEN /\ liveTimers > 0
         /\ UNCHANGED <<oceanVars, detached>>
    ELSE /\ detached' = [detached EXCEPT !.live = @ + liveTimers]
         /\ OceanographicConstructed

\* navigateToSection(section): currentSection, then initializeSection
NavigateToSection(section, chartThrows) ==
    /\ section \in Sections
    /\ Detached < MaxInstances
    /\ currentSection' = section
    /\ CASE section = "ml-training" ->
                /\ InitializeMLTraining(chartThrows)
                /\ UNCHANGED oceanVars
         [] section = "oceanographic" ->
                /\ InitializeOceanographic(chartThrows)
                /\ UNCHANGED <<trainVars, mlTrainingBuilt>>
         [] OTHER ->
                /\ ~chartThrows
                /\ UNCHANGED <<trainVars, oceanVars, mlTrainingBuilt, detached>>
    /\ UNCHANGED <<loadPhase, loadingShown, kpis, response, moduleVars, callVars, rngSeed>>

\* a click on #start-training: the listener of every MLTraining instance
\* constructed so far runs startTraining on its instance
ClickStartTraining ==
    /\ mlTrainingBuilt
    /\ StartTraining
    /\ detached' = [detached EXCEPT
                        !.running = @ + detached.paused + detached.idle,
                        !.paused = 0, !.idle = 0]
    /\ UNCHANGED <<oceanVars, currentSection, mlTrainingBuilt, loadPhase,
                   loadingShown, kpis, response, moduleVars, callVars, rngSeed>>

\* a click on #pause-training
ClickPauseTraining ==
    /\ mlTrainingBuilt
    /\ PauseTraining
    /\ detached' = [detached EXCEPT
                        !.paused = @ + detached.running, !.running = 0]
    /\ UNCHANGED <<oceanVars, currentSection, mlTrainingBuilt, loadPhase,
                   loadingShown, kpis, response, moduleVars, callVars, rngSeed>>

\* a click on #stop-training
ClickStopTraining ==
    /\ mlTrainingBuilt
    /\ StopTraining
    /\ detached' = [detached EXCEPT
                        !.idle = @ + detached.running + detached.paused,
                        !.running = 0, !.paused = 0]
    /\ UNCHANGED <<oceanVars, currentSection, mlTrainingBuilt, loadPhase,
                   loadingShown, kpis, response, moduleVars, callVars, rngSeed>>

\* the run of a replaced instance reaches its last epoch: completeTraining
\* clears its interval
DetachedRunCompletes ==
    /\ detached.running > 0
    /\ detached' = [detached EXCEPT !.running = @ - 1, !.idle = @ + 1]
    /\ UNCHANGED <<trainVars, oceanVars, currentSection, mlTrainingBuilt,
                   loadPhase, loadingShown, kpis, response, moduleVars, callVars, rngSeed>>

\* the interval timers that exist, per cadence
LiveTimerCount == liveTimers + detached.live

TrainingTimerCount == Cardinality(timers) + detached.running

\* the page on the dashboard, the initial load over, no view opened yet
InitApp ==
    /\ rngSeed \in Seeds
    /\ unitCall = NoCall
    /\ ModulesInit
    /\ MLTrainingInit
    /\ OceanographicNotBuilt
    /\ AppAt("dashboard")

NextApp ==
    \/ \E section \in Sections, chartThrows \in BOOLEAN :
            NavigateToSection(section, chartThrows)
    \/ ClickStartTraining
    \/ ClickPauseTraining
    \/ ClickStopTraining
    \/ \E t \in timers : TimerFires(t) /\ UNCHANGED <<oceanVars, appVars, moduleVars, callVars, rngSeed>>
    \/ DetachedRunCompletes

SpecApp == InitApp /\ [][NextApp]_vars

(* The initial load: the page from the construction of BluePulseApp, the   *)
(* request settling while the user navigates.                              *)

InitLoad ==
    /\ rngSeed \in Seeds
    /\ unitCall = NoCall
    /\ ModulesInit
    /\ MLTrainingInit
    /\ OceanographicNotBuilt
    /\ BluePulseAppInit

NextLoad ==
    \/ \E section \in Sections, chartThrows \in BOOLEAN :
            NavigateToSection(section, chartThrows)
    \/ \E outcome \in {"rejected", "notOk", "ok"} :
            FetchSettles(outcome) /\ UNCHANGED <<trainVars, oceanVars, moduleVars, callVars, rngSeed>>
    \/ BodyUnparsable /\ UNCHANGED <<trainVars, oceanVars, moduleVars, callVars, rngSeed>>
    \/ \E body \in ResponseBodies :
            BodyParsed(body) /\ UNCHANGED <<trainVars, oceanVars, moduleVars, callVars, rngSeed>>

SpecLoad == InitLoad /\ [][NextLoad]_vars

\* the browser settles the request and the reading of its body, and runs the
\* continuations of loadInitialData
SpecLoadSettles ==
    /\ SpecLoad
    /\ WF_vars(\E outcome \in {"rejected", "notOk", "ok"} :
                    FetchSettles(outcome) /\ UNCHANGED <<trainVars, oceanVars, moduleVars, callVars, rngSeed>>)
    /\ WF_vars((BodyUnparsable \/ \E body \in ResponseBodies : BodyParsed(body))
                    /\ UNCHANGED <<trainVars, oceanVars, moduleVars, callVars, rngSeed>>)

\* C22 (as claimed): whatever the navigations, at most one 30 s live timer
\* and at most one 1 s training timer exist.
C22_OneTimerPerCadence ==
    /\ LiveTimerCount <= 1
    /\ TrainingTimerCount <= 1

\* C23: whichever way the dashboard stats request comes out (it fails, it is
\* answered with a status that is not ok, its body cannot be parsed, it
\* succeeds), loadInitialData ends, and it ends with the overlay hidden and
\* the four KPIs set: to the fields of the body when a body object was
\* parsed, to the fallback tuple (5247, 8, 15, 1847) otherwise. Navigation
\* stays possible throughout.
C23_LoadEndsPopulated ==
    /\ [](loadPhase = "done" =>
            /\ ~loadingShown
            /\ Len(kpis) = 4
            /\ response.outcome \in {"rejected", "notOk", "unparsable", "parsed"}
            /\ IF response.outcome = "parsed" /\ ~response.body.null
               THEN \A k \in 1..4 : kpis[k] = response.body.fields[k]
               ELSE kpis = <<JsNumber(5247), JsNumber(8), JsNumber(15),
                              JsNumber(1847)>>)
    /\ <>[](loadPhase = "done" /\ ~loadingShown)

\* the load has ended on a parsed body whose values are not the fallback's,
\* after the user had left the dashboard
C23_Witness ==
    /\ loadPhase = "done"
    /\ response.outcome = "parsed"
    /\ ~response.body.null
    /\ kpis[1] = JsNumber(5300)
    /\ currentSection # "dashboard"

\* C24 (as claimed): a request for the buffer of a key that is not configured
\* fails instead of yielding an empty or default buffer: no chart is ever
\* built, and no card reading skipped, from an empty buffer standing in for
\* the buffer of a key historicalData does not hold.
C24_UnknownParameterFails ==
    currentParameter \notin ParameterKeys =>
        ~(/\ oceanCharts.forecast.labels = <<>>
          /\ oceanCharts.historical.values = <<>>
          /\ cardReading = [read |-> FALSE])

\* C25 (as claimed): getParameterUnit returns the configured label for each
\* of the five configured keys and the label "Value" for every other key.
C25_UnitOrValue ==
    unitCall.called =>
        unitCall.returned =
            IF unitCall.parameter \in ParameterKeys
            THEN Text(Units[unitCall.parameter])
            ELSE Text("Value")

\* the noise amplitude each profile of loadHistoricalData gives the value
\* field, in hundredths
NoiseAmplitude ==
    [temperature |-> 80, salinity |-> 30, chlorophyll |-> 80, ph |-> 10,
     oxygen |-> 40]

\* C26 (as claimed): the value a live tick appends to a buffer differs from
\* the buffer's previous latest value by no more than half the noise
\* amplitude configured for that parameter.
C26_StepWithinHalfAmplitude ==
    [][LiveTimerFires =>
        \A p \in ParameterKeys :
            LET step == Value(LastOf(historicalData'[p]))
                            - Value(LastOf(historicalData[p]))
            IN  /\ step <= 5000 * NoiseAmplitude[p]
                /\ 0 - step <= 5000 * NoiseAmplitude[p]]_vars

\* C27: bulk generation over a horizon of 24 hours leaves the temperature
\* buffer with 24 samples, each with a value within [24.6, 32.4]
\* (28.5 - 1.5 - 2 - 0.4 and 28.5 + 1.5 + 2 + 0.4).
C27_TemperatureDayWithinEnvelope ==
    (forecastRange = "24h" /\ appended = 24) =>
        /\ Len(historicalData["temperature"]) = 24
        /\ \A j \in 1 .. Len(historicalData["temperature"]) :
              /\ Value(historicalData["temperature"][j]) >= 24600000
              /\ Value(historicalData["temperature"][j]) <= 32400000

\* a day of temperature was generated in bulk, with the noise at its upper
\* end: the sample of the daily peak is above 30.3
C27_Witness ==
    /\ forecastRange = "24h"
    /\ appended = 24
    /\ Len(historicalData["temperature"]) = 24
    /\ \E j \in 1 .. 24 : Value(historicalData["temperature"][j]) > 30300000

\* C28 (as claimed): a change of the selected parameter or of the selected
\* station, the forecast range staying as it is, modifies no buffer: the
\* samples live ticks appended are still there after it.
C28_SelectionKeepsBuffers ==
    [][(/\ forecastRange' = forecastRange
        /\ \/ currentParameter' # currentParameter
           \/ currentStation' # currentStation)
            => historicalData' = historicalData]_vars

\* C29 (as claimed): a run in progress completes after finitely many more
\* timer ticks, whatever the epochs control assigned to totalEpochs: in every
\* state with the timer running, some number of further ticks (at most 101:
\* no assigned total exceeds 100) brings currentEpoch to pass the completion
\* test of simulateTrainingEpoch. The ticks being the only steps of a run
\* that is neither paused nor stopped, a state without such a number starts
\* a run that never completes, however fair the timer.
C29_RunCanComplete ==
    Running =>
        \E n \in 1 .. 101 : TrainingComplete(currentEpoch + n, totalEpochs)

\* C30 (as claimed): in the forecast chart every plotted value is under the
\* label of the sample it was taken from. A dataset given as an array of
\* numbers is plotted by position, its k-th element at the k-th label; so the
\* label at place k is that of sample k for the historical dataset, and that
\* of sample split - 1 + k for the forecast dataset (counting from 1).
C30_ValuesUnderTheirLabels ==
    LET d     == historicalData[currentParameter]
        n     == Len(d)
        split == SplitPoint(n)
        chart == oceanCharts.forecast
    IN  (n >= 2 /\ chart.labels # <<>>) =>
            /\ \A k \in 1 .. Len(chart.historical) :
                  chart.labels[k] = HourLabel(Timestamp(d[k]))
            /\ \A k \in 1 .. Len(chart.forecast) :
                  chart.labels[k] = HourLabel(Timestamp(d[split - 1 + k]))

----------------------------------------------------------------------------
(* Properties of the species map *)

\* the elements of a sequence
Elements(data) == {data[k] : k \in 1 .. Len(data)}

\* C31 (as claimed): in every state filteredData holds exactly the species
\* of speciesData that pass the values the two selects show, after a refresh
\* too.
C31_FilteredMatchesSelects ==
    /\ Len(filteredData) = Cardinality(Elements(filteredData))
    /\ Elements(filteredData) =
        {species \in Elements(speciesData) :
            /\ \/ speciesFilter = "all"
               \/ species.type = speciesFilter
            /\ \/ confidenceFilter = "all"
               \/ confidenceFilter = "high" /\ species.confidence >= 90
               \/ confidenceFilter = "medium" /\ species.confidence >= 70
                                              /\ species.confidence < 90
               \/ confidenceFilter = "low" /\ species.confidence < 70}

\* C32 (as claimed): applyFilters keeps, within the confidence filter, the
\* species with status EN or CR for 'endangered', every species for 'all',
\* and the species of the type named for any other value.
C32_EndangeredByStatus ==
    [][((\E value \in SpeciesFilterChoices : SpeciesFilterChange(value))
            \/ (\E value \in ConfidenceFilterChoices : ConfidenceFilterChange(value)))
        => Elements(filteredData') =
            {species \in Elements(speciesData) :
                /\ \/ speciesFilter' = "all"
                   \/ speciesFilter' = "endangered" /\ species.status \in {"EN", "CR"}
                   \/ speciesFilter' \notin {"all", "endangered"}
                        /\ species.type = speciesFilter'
                /\ \/ confidenceFilter' = "all"
                   \/ confidenceFilter' = "high" /\ species.confidence >= 90
                   \/ confidenceFilter' = "medium" /\ species.confidence >= 70
                                                   /\ species.confidence < 90
                   \/ confidenceFilter' = "low" /\ species.confidence < 70}]_vars

----------------------------------------------------------------------------
(* Properties of the asynchronous operations *)

\* C33 (as claimed): the loading overlay is shown whenever the initial load,
\* an eDNA analysis or an otolith classification is still in flight.
C33_OverlayWhileInFlight ==
    (loadPhase # "done" \/ isAnalyzing \/ isClassifying) => loadingShown

\* C34: an EDNAAnalysis instance has at most one analysis in flight, and
\* isAnalyzing and the disabled start button tell whether it has one;
\* startAnalysis during an analysis changes nothing; when an analysis ends,
\* with or without an error, isAnalyzing is false, the start button is
\* enabled and the overlay has been hidden.
C34_OneAnalysisInFlight ==
    /\ [](/\ Len(analysisStepsLeft) <= 1
          /\ isAnalyzing <=> (Len(analysisStepsLeft) = 1)
          /\ startDisabled <=> isAnalyzing)
    /\ [][(isAnalyzing /\ StartAnalysis) => UNCHANGED <<ednaVars, loadingShown>>]_vars
    /\ [][Len(analysisStepsLeft') < Len(analysisStepsLeft)
            => (~isAnalyzing' /\ ~startDisabled' /\ ~loadingShown')]_vars

\* an analysis has ended with an error and the next one is under way
C34_Witness ==
    /\ lastAlert = "danger"
    /\ analysisResults = "mock"
    /\ isAnalyzing
    /\ analysisStepsLeft = <<AnalysisSteps - 1>>

\* C35: classifyImage changes nothing without an image or during a
\* classification; at most one classification is in flight, and
\* isClassifying tells whether one is; when a classification ends, with or
\* without an error, isClassifying is false and the classify button is
\* enabled.
C35_OneClassificationInFlight ==
    /\ [](/\ classification.inFlight <= 1
          /\ isClassifying <=> (classification.inFlight = 1)
          /\ isClassifying => currentImage # NoImage)
    /\ [][((currentImage = NoImage \/ isClassifying) /\ ClassifyImage)
            => UNCHANGED <<otolithVars, loadingShown>>]_vars
    /\ [][classification'.inFlight < classification.inFlight
            => (~isClassifying' /\ ~classifyDisabled')]_vars

\* a classification is in flight while the classify button is enabled again
\* (an image was displayed meanwhile), after an earlier one ended in error
C35_Witness ==
    /\ isClassifying
    /\ ~classifyDisabled
    /\ classification.inFlight = 1
    /\ lastAlert = "danger"

\* C36: handleImageUpload with a file whose type does not start with
\* 'image/' shows a warning and leaves currentImage, the preview and the
\* classify button as they are; no read of the file is started.
C36_NonImageRejected ==
    [][\A file \in FileChoices :
        (~StartsWith(file.type, ImagePrefix) /\ HandleImageUpload(file))
            => /\ lastAlert' = "warning"
               /\ UNCHANGED <<currentImage, previewImage, classifyDisabled,
                              readerPending>>]_vars

\* a file that is not an image was refused while an image is displayed
C36_Witness ==
    /\ lastAlert = "warning"
    /\ currentImage # NoImage
    /\ previewImage = currentImage
    /\ readerPending = {}

----------------------------------------------------------------------------
(* Properties of the assistant's conversation *)

\* the senders of a conversationHistory alternate
Alternates(history) ==
    \A j \in 1 .. (Len(history) - 1) : history[j].sender # history[j + 1].sender

\* C37: In every AIAssistant instance, a send with an empty or whitespace
\* input, or during the processing of a message, adds nothing to
\* conversationHistory; the senders of conversationHistory alternate, at most
\* one message is being processed, the last entry is a user message exactly
\* while its reply is awaited, and the step that delivers a reply (response
\* or apology) adds one AI message and leaves isProcessing false.
C37_HistoryAlternates ==
    /\ [](\A i \in DOMAIN assistants :
            /\ Alternates(assistants[i].conversationHistory)
            /\ Len(assistants[i].processing) <= 1
            /\ assistants[i].isProcessing <=> (Len(assistants[i].processing) = 1)
            /\ chatMessages.present =>
                (assistants[i].isProcessing <=>
                    /\ assistants[i].conversationHistory # <<>>
                    /\ assistants[i].conversationHistory[
                            Len(assistants[i].conversationHistory)].sender = "user"))
    /\ [][(ClickSend \/ \E query \in ChatInputs : ClickSuggestion(query))
            => \A i \in DOMAIN assistants :
                 /\ assistants[i].isProcessing
                        => assistants'[i].conversationHistory
                                = assistants[i].conversationHistory
                 /\ (ClickSend /\ Trim(chatInput) = <<>>)
                        => assistants'[i].conversationHistory
                                = assistants[i].conversationHistory]_vars
    /\ [][\A i \in DOMAIN assistants :
            Len(assistants'[i].processing) < Len(assistants[i].processing)
                => /\ ~assistants'[i].isProcessing
                   /\ chatMessages.present =>
                        /\ Len(assistants'[i].conversationHistory)
                                = Len(assistants[i].conversationHistory) + 1
                        /\ assistants'[i].conversationHistory[
                                Len(assistants'[i].conversationHistory)].sender = "ai"]_vars

\* Two instances: the first holds two exchanges, one ended by the apology;
\* the second is processing its second message; the input is not blank.
C37_Witness ==
    /\ Len(assistants) = 2
    /\ Len(assistants[1].conversationHistory) = 4
    /\ \E j \in 1 .. 4 : assistants[1].conversationHistory[j].text = <<"apology">>
    /\ ~assistants[1].isProcessing
    /\ assistants[2].isProcessing
    /\ Len(assistants[2].conversationHistory) = 3
    /\ Trim(chatInput) # <<>>

----------------------------------------------------------------------------
(* Properties of the training log *)

\* the last `count` messages of `calls`, newest first
NewestFirst(calls, count) ==
    [j \in 1 .. count |-> calls[Len(calls) + 1 - j]]

\* C38: On a page with #training-logs the log never holds more than 20
\* entries, and after n addTrainingLog calls it holds the messages of the
\* last min(n, 20) calls, newest first.
C38_LogHoldsNewestTwenty ==
    trainingLogs.present =>
        /\ Len(trainingLogs.entries) <= MaxLogEntries
        /\ trainingLogs.entries =
                NewestFirst(trainingLogs.calls,
                            IF Len(trainingLogs.calls) < MaxLogEntries
                            THEN Len(trainingLogs.calls)
                            ELSE MaxLogEntries)

\* 22 calls: the two oldest initial logs are gone, the third is the last entry
C38_Witness ==
    /\ Len(trainingLogs.calls) = 22
    /\ Len(trainingLogs.entries) = MaxLogEntries
    /\ trainingLogs.calls[1] = InitialLogs[1]
    /\ trainingLogs.calls[3] = InitialLogs[3]
    /\ trainingLogs.entries[MaxLogEntries] = InitialLogs[3]
    /\ trainingLogs.entries[1] = "Training stopped"

=============================================================================
